---------------------------- MODULE Spec2Model ----------------------------
(***************************************************************************)
(* A model of the runtime engine of the distributed ray-tracing worker     *)
(* (LambdaWorker, src/unnamed/part_000): the ray queues, the packet        *)
(* assembler, the reliable UDP transport and the peer connection state     *)
(* machine.  Every handler of the single-threaded reactor is one atomic    *)
(* action; a handler is written as an operator from the worker's state (a  *)
(* record w of all its fields) to the state it leaves behind.              *)
(*                                                                         *)
(* The tracer (Trace, Shade), the camera and RayState::serialize are       *)
(* outside the modelled code: their results are inputs of the actions,     *)
(* drawn from small sets.                                                  *)
(***************************************************************************)
EXTENDS Integers, Sequences, FiniteSets, TLC

(***************************************************************************)
(* Bounds of the model                                                     *)
(***************************************************************************)
\* treelet ids are 0..MaxTreelet
MaxTreelet == 1
\* ray objects ever created (generated, shaded or deserialized)
MaxRays == 2
\* messages waiting in messageParser while the ray pipeline runs
MaxQueue == 1
\* rays the coordinator ever asks for while the packet assembler is examined
MaxOut == 3
\* ack packets the worker builds
MaxAckId == 3
\* rounds of connection requests to one peer
MaxTries == 1
\* messages waiting in messageParser while datagrams arrive
MaxBacklog == 2
\* service packets waiting in servicePackets
MaxService == 2
\* the packet clock runs 0..MaxTime
MaxTime == 4
\* the highest attempt number a received datagram or acknowledgement carries
MaxAttempt == 1
\* sequence numbers a remote sender uses
MaxSeqNo == 1
\* deliveries of one datagram before the acknowledgement timer fires
MaxDeliveries == 124
\* datagrams each socket sends and receives during a benchmark
MaxDatagrams == 2

(***************************************************************************)
(* Program constants                                                       *)
(***************************************************************************)
UDP_MTU_BYTES == 1350
\* the header budget every packet starts with
PACKET_HEADER_LEN == 25
\* bytes of the length prefix RecordWriter puts before each record
RECORD_PREFIX_LEN == 4
\* rays handled by one handleRayQueue activation (20'000 in the source,
\* scaled down so that the cap is reached)
MAX_RAYS == 2
\* in clock ticks (one second each in the source)
PACKET_TIMEOUT == 2
KEEP_ALIVE_INTERVAL == 2
\* the seed drawn in the constructor: any non-zero value
mySeed == 1
\* a seed that is not mySeed
otherSeed == mySeed + 1
\* the ids the coordinator may assign in Hey
HeyIds == {1}

Treelets == 0..MaxTreelet
\* the coordinator is peer 0; remote workers are 2 and 3
PeerIds == {2, 3}
Ifaces == {0, 1}
Addr(p, i) == <<p, i>>
coordinatorAddr == Addr(0, 0)
PeerAddrs == {Addr(p, i) : p \in PeerIds, i \in Ifaces}

\* serialized lengths RayState::serialize may return.  With the 25 bytes
\* of header budget and 4 bytes of prefix per record: 658 + 658 leave a byte
\* of a fresh packet unused, 658 + 659 fill it to the byte and 659 + 659
\* overflow it by one; the record of 1347 is longer than the MTU by itself
RaySizes == {658, 659, 1347}

\* an Optional that holds nothing; one that holds x is <<x>>
None == <<>>

\* the configurations main can build from the command line; packetsLogRate
\* and rayActionsLogRate keep their default 0, so packetLogBD never fires
Configs == [sendReliably : BOOLEAN, finishedRayAction : {"SendBack"}]

(***************************************************************************)
(* Helpers                                                                 *)
(***************************************************************************)
RECURSIVE SumLen(_, _)
SumLen(q, S) ==
    IF S = {} THEN 0
    ELSE LET t == CHOOSE x \in S : TRUE IN Len(q[t]) + SumLen(q, S \ {t})

RECURSIVE Flatten(_, _)
\* the queues of map q, concatenated in key order
Flatten(q, S) ==
    IF S = {} THEN <<>>
    ELSE LET t == CHOOSE x \in S : \A y \in S : x <= y
         IN q[t] \o Flatten(q, S \ {t})

Range(s) == {s[i] : i \in 1..Len(s)}
Ids(s) == [i \in 1..Len(s) |-> s[i].id]
MapPut(m, k, v) == [x \in (DOMAIN m) \cup {k} |-> IF x = k THEN v ELSE m[x]]
MapGet(m, k, d) == IF k \in DOMAIN m THEN m[k] ELSE d
EmptyMap == << >>

VARIABLES
    config,                 \* WorkerConfiguration: sendReliably, finishedRayAction
    workerId,               \* Optional<WorkerId>
    terminated,             \* set by Bye
    failed,                 \* an exception left the loop
    initialized,            \* initializeScene has run
    treeletIds,             \* set<TreeletId> the worker owns
    peers,                  \* map<WorkerId, Worker>
    addressToWorker,        \* map<Address, WorkerId>
    treeletToWorker,        \* map<TreeletId, vector<WorkerId>>
    neededTreelets,
    requestedTreelets,
    rayQueue,
    outQueue,               \* map<TreeletId, deque<RayStatePtr>>
    pendingQueue,           \* map<TreeletId, deque<RayStatePtr>>
    finishedQueue,
    finishedPathIds,
    outQueueSize,
    pendingQueueSize,
    sequenceNumbers,        \* map<Address, uint64_t>
    rayPackets,             \* deque<RayPacket>
    servicePackets,         \* deque<ServicePacket>
    outstandingRayPackets,  \* deque<pair<deadline, RayPacket>>
    toBeAcked,              \* map<Address, vector<(seqNo, tracked, attempt)>>
    receivedAcks,           \* map<Address, set<seqNo>>
    receivedPacketSeqNos,   \* map<Address, set<seqNo>>
    messageParser,          \* completed messages, each with its read mark
    ackId,
    now,                    \* packet_clock
    nextRayId,              \* identity of the next ray object created
    constructed,            \* history: the ray packets handleOutQueue built
    forwarded,              \* history: reliable messages passed on by handleUdpReceive
    coordinatorWrites,      \* the messages enqueued on coordinatorConnection
    benchmark,              \* benchmark mode and benchmarkData
    peerWorker,             \* a second worker process, as one record, or None
    pluralized              \* a call of pluralize: its arguments and result, or None

vars == <<config, workerId, terminated, failed, initialized, treeletIds, peers,
          addressToWorker, treeletToWorker, neededTreelets, requestedTreelets,
          rayQueue, outQueue, pendingQueue, finishedQueue, finishedPathIds,
          outQueueSize, pendingQueueSize, sequenceNumbers, rayPackets,
          servicePackets, outstandingRayPackets, toBeAcked, receivedAcks,
          receivedPacketSeqNos, messageParser, ackId, now, nextRayId,
          constructed, forwarded, coordinatorWrites,
          benchmark, peerWorker, pluralized>>

\* the worker's state as one record
W == [config |-> config, workerId |-> workerId, terminated |-> terminated, failed |-> failed,
      initialized |-> initialized, treeletIds |-> treeletIds, peers |-> peers,
      addressToWorker |-> addressToWorker, treeletToWorker |-> treeletToWorker,
      neededTreelets |-> neededTreelets, requestedTreelets |-> requestedTreelets,
      rayQueue |-> rayQueue, outQueue |-> outQueue, pendingQueue |-> pendingQueue,
      finishedQueue |-> finishedQueue, finishedPathIds |-> finishedPathIds,
      outQueueSize |-> outQueueSize, pendingQueueSize |-> pendingQueueSize,
      sequenceNumbers |-> sequenceNumbers, rayPackets |-> rayPackets,
      servicePackets |-> servicePackets,
      outstandingRayPackets |-> outstandingRayPackets, toBeAcked |-> toBeAcked,
      receivedAcks |-> receivedAcks, receivedPacketSeqNos |-> receivedPacketSeqNos,
      messageParser |-> messageParser, ackId |-> ackId, now |-> now,
      nextRayId |-> nextRayId, constructed |-> constructed,
      forwarded |-> forwarded, coordinatorWrites |-> coordinatorWrites,
      benchmark |-> benchmark]

\* the state a handler leaves behind becomes the worker's next state
CommitLocal(r) ==
    /\ config' = r.config
    /\ workerId' = r.workerId
    /\ terminated' = r.terminated
    /\ failed' = r.failed
    /\ initialized' = r.initialized
    /\ treeletIds' = r.treeletIds
    /\ peers' = r.peers
    /\ addressToWorker' = r.addressToWorker
    /\ treeletToWorker' = r.treeletToWorker
    /\ neededTreelets' = r.neededTreelets
    /\ requestedTreelets' = r.requestedTreelets
    /\ rayQueue' = r.rayQueue
    /\ outQueue' = r.outQueue
    /\ pendingQueue' = r.pendingQueue
    /\ finishedQueue' = r.finishedQueue
    /\ finishedPathIds' = r.finishedPathIds
    /\ outQueueSize' = r.outQueueSize
    /\ pendingQueueSize' = r.pendingQueueSize
    /\ sequenceNumbers' = r.sequenceNumbers
    /\ rayPackets' = r.rayPackets
    /\ servicePackets' = r.servicePackets
    /\ outstandingRayPackets' = r.outstandingRayPackets
    /\ toBeAcked' = r.toBeAcked
    /\ receivedAcks' = r.receivedAcks
    /\ receivedPacketSeqNos' = r.receivedPacketSeqNos
    /\ messageParser' = r.messageParser
    /\ ackId' = r.ackId
    /\ now' = r.now
    /\ nextRayId' = r.nextRayId
    /\ constructed' = r.constructed
    /\ forwarded' = r.forwarded
    /\ coordinatorWrites' = r.coordinatorWrites
    /\ benchmark' = r.benchmark

\* the worker takes a step on its own
Commit(r) ==
    CommitLocal(r) /\ peerWorker' = peerWorker /\ pluralized' = pluralized

(***************************************************************************)
(* Rays.  A ray object is [id, pathId, treelet, toVisitEmpty, hit,         *)
(* isShadowRay, Ld]: id is the identity of the object (a unique_ptr in the *)
(* source), treelet is CurrentTreelet().                                   *)
(***************************************************************************)
NewRay(id, pathId, t, shadow) ==
    [id |-> id, pathId |-> pathId, treelet |-> t, toVisitEmpty |-> FALSE,
     hit |-> FALSE, isShadowRay |-> shadow, Ld |-> IF shadow THEN 1 ELSE 0]

\* pushRayQueue
pushRayQueue(w, ray) == [w EXCEPT !.rayQueue = Append(@, ray)]

\* ClassifyProcessed, except that a ray for a treelet with a known worker
\* also marks the treelet as needed
ClassifyProcessed_marksKnown(w, ray) ==
    LET nextTreelet == ray.treelet IN
    IF nextTreelet \in w.treeletIds THEN pushRayQueue(w, ray)
    ELSE IF nextTreelet \in DOMAIN w.treeletToWorker
    THEN [w EXCEPT !.neededTreelets = @ \cup {nextTreelet},
                   !.outQueue[nextTreelet] = Append(@, ray),
                   !.outQueueSize = @ + 1]
    ELSE [w EXCEPT !.neededTreelets = @ \cup {nextTreelet},
                   !.pendingQueue[nextTreelet] = Append(@, ray),
                   !.pendingQueueSize = @ + 1]

\* the three-way classification at the end of handleRayQueue
ClassifyProcessed(w, ray) ==
    LET nextTreelet == ray.treelet IN
    IF nextTreelet \in w.treeletIds THEN pushRayQueue(w, ray)
    ELSE IF nextTreelet \in DOMAIN w.treeletToWorker
    THEN [w EXCEPT !.outQueue[nextTreelet] = Append(@, ray),
                   !.outQueueSize = @ + 1]
    ELSE [w EXCEPT !.neededTreelets = @ \cup {nextTreelet},
                   !.pendingQueue[nextTreelet] = Append(@, ray),
                   !.pendingQueueSize = @ + 1]

\* ClassifyGenerated, except that a ray for a treelet the worker does not hold
\* is queued for sending whether or not a worker is known for the treelet
ClassifyGenerated_sendsUnknown(w, ray) ==
    LET nextTreelet == ray.treelet IN
    IF nextTreelet \in w.treeletIds THEN pushRayQueue(w, ray)
    ELSE [w EXCEPT !.outQueue[nextTreelet] = Append(@, ray),
                   !.outQueueSize = @ + 1]

\* the same classification as generateRays writes it
ClassifyGenerated(w, ray) ==
    LET nextTreelet == ray.treelet IN
    IF nextTreelet \in w.treeletIds THEN pushRayQueue(w, ray)
    ELSE IF nextTreelet \in DOMAIN w.treeletToWorker
    THEN [w EXCEPT !.outQueue[nextTreelet] = Append(@, ray),
                   !.outQueueSize = @ + 1]
    ELSE [w EXCEPT !.neededTreelets = @ \cup {nextTreelet},
                   !.pendingQueue[nextTreelet] = Append(@, ray),
                   !.pendingQueueSize = @ + 1]

RECURSIVE generateRays(_, _)
\* generateRays: one ray per camera sample; ts lists the treelet each
\* sample's ray starts in
generateRays(w, ts) ==
    IF ts = <<>> THEN w
    ELSE LET ray == NewRay(w.nextRayId, w.nextRayId, Head(ts), FALSE)
             w1 == [w EXCEPT !.nextRayId = @ + 1]
         IN generateRays(ClassifyGenerated(w1, ray), Tail(ts))

\* getObjects: record the treelets among the object keys
getObjects(w, ts) == [w EXCEPT !.treeletIds = @ \cup ts]

\* initializeScene
initializeScene(w) == [w EXCEPT !.initialized = TRUE]

(***************************************************************************)
(* handleRayQueue.  The tracer's answer for each popped ray is an input:   *)
(* for Trace [hit, emptyVisit, treelet], for Shade [newRays, pathDone].    *)
(***************************************************************************)
TraceOutcomes ==
    [kind : {"trace"}, hit : BOOLEAN, emptyVisit : BOOLEAN, treelet : Treelets]

NewRaySpecs == [shadow : BOOLEAN, treelet : Treelets]

ShadeOutcomes(budget) ==
    [kind : {"shade"},
     newRays : {s \in {<<>>} \cup {<<a>> : a \in NewRaySpecs}
                       \cup {<<[shadow |-> FALSE, treelet |-> t],
                               [shadow |-> TRUE, treelet |-> t]>> : t \in Treelets} :
                  Len(s) <= budget},
     pathDone : BOOLEAN]

\* CloudIntegrator::Trace moves the ray on: the same object, changed
Trace(ray, o) ==
    [ray EXCEPT !.hit = o.hit, !.toVisitEmpty = o.emptyVisit,
                !.treelet = o.treelet]

recordFinishedPath(w, pathId) ==
    [w EXCEPT !.finishedPathIds = Append(@, pathId)]

\* a camera ray whose traversal ends without a hit is recorded as a finished
\* path and not kept
TraceBranch_dropsTerminal(a, ray, o) ==
    LET newRay == Trace(ray, o)
        hit == newRay.hit
        emptyVisit == newRay.toVisitEmpty
    IN IF newRay.isShadowRay
       THEN IF hit \/ emptyVisit
            THEN [a EXCEPT !.w.finishedQueue =
                      Append(@, [newRay EXCEPT !.Ld = IF hit THEN 0 ELSE @])]
            ELSE [a EXCEPT !.processedRays = Append(@, newRay)]
       ELSE IF ~emptyVisit \/ hit
       THEN [a EXCEPT !.processedRays = Append(@, newRay)]
       ELSE [a EXCEPT !.w = recordFinishedPath(a.w, ray.pathId)]

\* TraceBranch, except that every finished shadow ray loses its radiance
TraceBranch_zeroesShadow(a, ray, o) ==
    LET newRay == Trace(ray, o)
        hit == newRay.hit
        emptyVisit == newRay.toVisitEmpty
    IN IF newRay.isShadowRay
       THEN IF hit \/ emptyVisit
            THEN [a EXCEPT !.w.finishedQueue = Append(@, [newRay EXCEPT !.Ld = 0])]
            ELSE [a EXCEPT !.processedRays = Append(@, newRay)]
       ELSE IF ~emptyVisit \/ hit
       THEN [a EXCEPT !.processedRays = Append(@, newRay)]
       ELSE IF emptyVisit
       THEN [a EXCEPT !.w = recordFinishedPath(
                      [a.w EXCEPT !.finishedQueue = Append(@, [newRay EXCEPT !.Ld = 0])],
                      ray.pathId)]
       ELSE a

\* the body of the first loop for a ray with a non-empty toVisit
TraceBranch(a, ray, o) ==
    LET newRay == Trace(ray, o)
        hit == newRay.hit
        emptyVisit == newRay.toVisitEmpty
    IN IF newRay.isShadowRay
       THEN IF hit \/ emptyVisit
            THEN [a EXCEPT !.w.finishedQueue =
                      Append(@, [newRay EXCEPT !.Ld = IF hit THEN 0 ELSE @])]
            ELSE [a EXCEPT !.processedRays = Append(@, newRay)]
       ELSE IF ~emptyVisit \/ hit
       THEN [a EXCEPT !.processedRays = Append(@, newRay)]
       ELSE IF emptyVisit
       THEN [a EXCEPT !.w = recordFinishedPath(
                      [a.w EXCEPT !.finishedQueue = Append(@, [newRay EXCEPT !.Ld = 0])],
                      ray.pathId)]
       ELSE a

\* the body of the first loop for a ray that hit: Shade consumes the ray
\* and returns new ones
ShadeBranch(a, ray, o) ==
    LET n == Len(o.newRays)
        made == [i \in 1..n |->
                    NewRay(a.w.nextRayId + i - 1, ray.pathId,
                           o.newRays[i].treelet, o.newRays[i].shadow)]
        w1 == [a.w EXCEPT !.nextRayId = @ + n]
        w2 == IF o.pathDone THEN recordFinishedPath(w1, ray.pathId) ELSE w1
    IN [a EXCEPT !.w = w2, !.processedRays = @ \o made]

RECURSIVE TraceLoop_skipsInvalid(_, _, _)
\* a ray with an empty toVisit and no hit is dropped and the loop goes on
TraceLoop_skipsInvalid(a, i, oracle) ==
    IF ~(i < MAX_RAYS /\ a.w.rayQueue # <<>>) THEN a
    ELSE LET ray == Head(a.w.rayQueue)
             a1 == [a EXCEPT !.w.rayQueue = Tail(@)]
             o == oracle[i + 1]
             a2 == IF ~ray.toVisitEmpty THEN TraceBranch(a1, ray, o)
                   ELSE IF ray.hit THEN ShadeBranch(a1, ray, o)
                   ELSE a1
         IN TraceLoop_skipsInvalid(a2, i + 1, oracle)

RECURSIVE TraceLoop_noCap(_, _, _)
\* the loop runs until rayQueue is empty
TraceLoop_noCap(a, i, oracle) ==
    IF a.threw \/ a.w.rayQueue = <<>> THEN a
    ELSE LET ray == Head(a.w.rayQueue)
             a1 == [a EXCEPT !.w.rayQueue = Tail(@)]
             o == IF i < Len(oracle) THEN oracle[i + 1]
                  ELSE [kind |-> "trace", hit |-> FALSE, emptyVisit |-> TRUE,
                        treelet |-> ray.treelet]
             a2 == IF ~ray.toVisitEmpty THEN TraceBranch(a1, ray, o)
                   ELSE IF ray.hit
                   THEN ShadeBranch(a1, ray,
                                    [kind |-> "shade", newRays |-> <<>>,
                                     pathDone |-> TRUE])
                   ELSE [a1 EXCEPT !.threw = TRUE]
         IN TraceLoop_noCap(a2, i + 1, oracle)

RECURSIVE TraceLoop(_, _, _)
\* for (i = 0; i < MAX_RAYS && !rayQueue.empty(); i++): a is the state, the
\* local processedRays, and whether the loop threw
TraceLoop(a, i, oracle) ==
    IF a.threw \/ ~(i < MAX_RAYS /\ a.w.rayQueue # <<>>) THEN a
    ELSE LET ray == Head(a.w.rayQueue)
             a1 == [a EXCEPT !.w.rayQueue = Tail(@)]
             o == oracle[i + 1]
             a2 == IF ~ray.toVisitEmpty THEN TraceBranch(a1, ray, o)
                   ELSE IF ray.hit THEN ShadeBranch(a1, ray, o)
                   ELSE [a1 EXCEPT !.threw = TRUE]
         IN TraceLoop(a2, i + 1, oracle)

RECURSIVE ClassifyLoop(_, _)
\* while (!processedRays.empty())
ClassifyLoop(w, processedRays) ==
    IF processedRays = <<>> THEN w
    ELSE ClassifyLoop(ClassifyProcessed(w, Head(processedRays)),
                      Tail(processedRays))

handleRayQueue(w, oracle) ==
    LET a == TraceLoop([w |-> w, processedRays |-> <<>>, threw |-> FALSE],
                       0, oracle)
    IN IF a.threw
       THEN [a.w EXCEPT !.failed = TRUE]
       ELSE ClassifyLoop(a.w, a.processedRays)

\* what the tracer may answer for a ray
OutcomesFor(ray, budget) ==
    IF ~ray.toVisitEmpty THEN TraceOutcomes
    ELSE IF ray.hit THEN ShadeOutcomes(budget)
    ELSE {[kind |-> "invalid"]}

RECURSIVE Oracles(_, _)
\* the tracer's answers for the rays an activation pops
Oracles(rays, budget) ==
    IF rays = <<>> THEN {<<>>}
    ELSE UNION {{<<o>> \o rest :
                    rest \in Oracles(Tail(rays),
                                     IF o.kind = "shade"
                                     THEN budget - Len(o.newRays) ELSE budget)} :
                o \in OutcomesFor(Head(rays), budget)}


(***************************************************************************)
(* handleOutQueue: the packet assembler.  size[id] is the length           *)
(* RayState::serialize returns for ray id, pick[t] the peer random::sample *)
(* draws for treelet t.  The loop state a is [w, t, peer, unpacked, ...]:  *)
(* unpacked holds the carried-over ray (unpackedRayStr, unpackedRayPtr).   *)
(***************************************************************************)
\* a is the assembler's loop state: its rayCount and the payload written
RayPacket(destination, destinationId, a, reliable, sequenceNumber, tracked) ==
    [destination |-> destination, destinationId |-> destinationId,
     targetTreelet |-> a.t, rayCount |-> a.rayCount,
     payload |-> a.payload, payloadLen |-> a.payloadLen, reliable |-> reliable,
     sequenceNumber |-> sequenceNumber, tracked |-> tracked,
     attempt |-> 0, retransmission |-> FALSE]

\* a pop that forgets the counter
PopOutRay_keepsCount(a) ==
    [a EXCEPT !.w.outQueue[a.t] = Tail(@)]

\* outRays.pop_front(); outQueueSize--
PopOutRay(a) ==
    [a EXCEPT !.w.outQueue[a.t] = Tail(@), !.w.outQueueSize = @ - 1]

\* the head of the outer loop's body: a fresh packet, which starts with the
\* carried-over ray when there is one
StartPacket(a, size) ==
    LET fresh == [a EXCEPT !.packetLen = PACKET_HEADER_LEN, !.rayCount = 0,
                           !.payload = <<>>, !.payloadLen = 0]
    IN IF a.unpacked # <<>>
       THEN LET ray == a.unpacked[1]
                len == size[ray.id] + RECORD_PREFIX_LEN
            IN [fresh EXCEPT !.rayCount = 1, !.packetLen = len,
                             !.payload = <<[id |-> ray.id, len |-> size[ray.id]]>>,
                             !.payloadLen = len,
                             !.unpacked = <<>>]
       ELSE fresh

RECURSIVE FillPacket_dropsOverflow(_, _)
\* the ray that does not fit ends the packet and is not carried over
FillPacket_dropsOverflow(a, size) ==
    IF ~(a.packetLen < UDP_MTU_BYTES /\ a.w.outQueue[a.t] # <<>>) THEN a
    ELSE LET ray == Head(a.w.outQueue[a.t])
             a1 == [a EXCEPT !.w.outQueue[a.t] = Tail(@),
                             !.w.outQueueSize = @ - 1]
             len == size[ray.id] + RECORD_PREFIX_LEN
         IN IF len + a1.packetLen > UDP_MTU_BYTES
            THEN a1
            ELSE FillPacket_dropsOverflow(
                    [a1 EXCEPT !.packetLen = @ + len,
                               !.payload = Append(@, [id |-> ray.id,
                                                      len |-> size[ray.id]]),
                               !.payloadLen = @ + len,
                               !.rayCount = @ + 1], size)

RECURSIVE FillPacket(_, _)
\* while (packetLen < UDP_MTU_BYTES && !outRays.empty())
FillPacket(a, size) ==
    IF ~(a.packetLen < UDP_MTU_BYTES /\ a.w.outQueue[a.t] # <<>>) THEN a
    ELSE LET ray == Head(a.w.outQueue[a.t])
             a1 == PopOutRay(a)
             len == size[ray.id] + RECORD_PREFIX_LEN
         IN IF len + a1.packetLen > UDP_MTU_BYTES
            THEN [a1 EXCEPT !.unpacked = <<ray>>]
            ELSE FillPacket([a1 EXCEPT !.packetLen = @ + len,
                                       !.payload =
                                           Append(@, [id |-> ray.id,
                                                      len |-> size[ray.id]]),
                                       !.payloadLen = @ + len,
                                       !.rayCount = @ + 1], size)

\* the sequence number the next packet to addr gets
PeerSeqNo(w, addr) == MapGet(w.sequenceNumbers, addr, 0)

\* a packet is queued and the sequence number stays what it was
EmitPacket_reusesSeqNo(a) ==
    LET dest == a.peer.address[1]
        seqNo == MapGet(a.w.sequenceNumbers, dest, 0)
        rayPacket == RayPacket(dest, a.peer.id, a, a.w.config.sendReliably,
                               seqNo, FALSE)
    IN [a EXCEPT !.w.rayPackets = Append(@, rayPacket),
                 !.w.constructed = Append(@, rayPacket)]

\* the tail of the outer loop's body: the packet is built with peerSeqNo and
\* queued, and peerSeqNo++
EmitPacket(a) ==
    LET dest == a.peer.address[1]
        seqNo == PeerSeqNo(a.w, dest)
        rayPacket == RayPacket(dest, a.peer.id, a, a.w.config.sendReliably,
                               seqNo, FALSE)
    IN [a EXCEPT !.w.rayPackets = Append(@, rayPacket),
                 !.w.constructed = Append(@, rayPacket),
                 !.w.sequenceNumbers = MapPut(@, dest, seqNo + 1)]

RECURSIVE PacketLoop(_, _)
\* while (!outRays.empty() || !unpackedRayStr.empty())
PacketLoop(a, size) ==
    IF ~(a.w.outQueue[a.t] # <<>> \/ a.unpacked # <<>>) THEN a
    ELSE PacketLoop(EmitPacket(FillPacket(StartPacket(a, size), size)), size)

\* the body of for (auto& q : outQueue) for one treelet
OutQueueOf(w, t, size, pick) ==
    IF w.outQueue[t] = <<>> THEN w
    ELSE IF t \notin DOMAIN pick \/ pick[t] \notin DOMAIN w.peers
    THEN [w EXCEPT !.failed = TRUE]
    ELSE LET w0 == [w EXCEPT !.sequenceNumbers =
                        MapPut(@, w.peers[pick[t]].address[1],
                               PeerSeqNo(w, w.peers[pick[t]].address[1]))]
         IN PacketLoop([w |-> w0, t |-> t, peer |-> w.peers[pick[t]],
                        unpacked |-> <<>>, packetLen |-> 0, rayCount |-> 0,
                        payload |-> <<>>, payloadLen |-> 0], size).w

RECURSIVE OutQueueLoop(_, _, _, _)
\* for (auto& q : outQueue), in key order
OutQueueLoop(w, S, size, pick) ==
    IF S = {} \/ w.failed THEN w
    ELSE LET t == CHOOSE x \in S : \A y \in S : x <= y
         IN OutQueueLoop(OutQueueOf(w, t, size, pick), S \ {t}, size, pick)

handleOutQueue(w, size, pick) == OutQueueLoop(w, DOMAIN w.outQueue, size, pick)

\* the peers random::sample may draw for the treelets with rays to send
Picks(w) ==
    LET busy == {t \in DOMAIN w.outQueue :
                    /\ w.outQueue[t] # <<>>
                    /\ t \in DOMAIN w.treeletToWorker
                    /\ w.treeletToWorker[t] # <<>>}
    IN {f \in [busy -> PeerIds \cup {0}] :
            \A t \in busy : f[t] \in Range(w.treeletToWorker[t])}

\* the lengths RayState::serialize may return for the rays in the out queues
Sizes(w, RS) ==
    [{r.id : r \in Range(Flatten(w.outQueue, DOMAIN w.outQueue))} -> RS]


(***************************************************************************)
(* Messages, peers and service packets                                     *)
(***************************************************************************)
Message(senderId, opcode, payload, reliable, sequenceNumber, tracked) ==
    [senderId |-> senderId, opcode |-> opcode, payload |-> payload,
     reliable |-> reliable, sequenceNumber |-> sequenceNumber,
     tracked |-> tracked, attempt |-> 0, read |-> FALSE]

\* a message built with the defaults: not reliable, sequence number 0
PlainMessage(senderId, opcode, payload) ==
    Message(senderId, opcode, payload, FALSE, 0, FALSE)

NoAddr == Addr(-1, -1)

\* Worker{id}: a peer as it is first recorded
Worker(id) ==
    [id |-> id, state |-> "Connecting", connected |-> <<FALSE, FALSE>>,
     seed |-> 0, treelets |-> {}, nextKeepAlive |-> 0, tries |-> 0,
     address |-> <<NoAddr, NoAddr>>]

\* ServicePacket(destination, destinationId, data): interface 0, no ack
ServicePacket(destination, destinationId, data) ==
    [destination |-> destination, destinationId |-> destinationId,
     data |-> data, iface |-> 0, ackPacket |-> FALSE, ackId |-> 0,
     tracked |-> FALSE]

createConnectionRequest(w, peer, addressNo) ==
    PlainMessage(w.workerId[1], "ConnectionRequest",
                 [workerId |-> w.workerId[1], mySeed |-> mySeed,
                  yourSeed |-> peer.seed, addressNo |-> addressNo])

createConnectionResponse(w, peer, addressNo) ==
    PlainMessage(w.workerId[1], "ConnectionResponse",
                 [workerId |-> w.workerId[1], mySeed |-> mySeed,
                  yourSeed |-> peer.seed, addressNo |-> addressNo,
                  treeletIds |-> w.treeletIds])

\* servicePackets.emplace_front(...); servicePackets.front().iface = iface
EmplaceFrontService(w, destination, destinationId, data, iface) ==
    [w EXCEPT !.servicePackets =
        <<[ServicePacket(destination, destinationId, data)
              EXCEPT !.iface = iface]>> \o @]

\* an announced peer is recorded anew even when it is already known
handleConnectTo_overwrites(w, proto) ==
    IF proto.workerId # w.workerId[1]
    THEN [w EXCEPT !.peers =
            MapPut(@, proto.workerId,
                   [Worker(proto.workerId) EXCEPT !.address = proto.address]),
                   !.addressToWorker =
                       MapPut(MapPut(@, proto.address[1], proto.workerId),
                              proto.address[2], proto.workerId)]
    ELSE w

\* the lambda handleConnectTo of processMessage
handleConnectTo(w, proto) ==
    IF proto.workerId \notin DOMAIN w.peers /\ proto.workerId # w.workerId[1]
    THEN LET peer == [Worker(proto.workerId) EXCEPT !.address = proto.address]
             a2w0 == IF proto.address[1] \in DOMAIN w.addressToWorker
                     THEN w.addressToWorker
                     ELSE MapPut(w.addressToWorker, proto.address[1],
                                 proto.workerId)
             a2w1 == IF proto.address[2] \in DOMAIN a2w0 THEN a2w0
                     ELSE MapPut(a2w0, proto.address[2], proto.workerId)
         IN [w EXCEPT !.peers = MapPut(@, proto.workerId, peer),
                      !.addressToWorker = a2w1]
    ELSE w

RECURSIVE MultipleConnect(_, _)
MultipleConnect(w, protos) ==
    IF protos = <<>> THEN w
    ELSE MultipleConnect(handleConnectTo(w, Head(protos)), Tail(protos))

\* case OpCode::Hey
ProcessHey(w, proto) ==
    LET w1 == [w EXCEPT !.workerId = <<proto.workerId>>]
        peer0 == [(IF 0 \in DOMAIN w1.peers THEN w1.peers[0] ELSE Worker(0))
                     EXCEPT !.address = <<coordinatorAddr, coordinatorAddr>>]
        w2 == [w1 EXCEPT !.peers = MapPut(@, 0, peer0)]
        w3 == EmplaceFrontService(w2, coordinatorAddr, 0,
                                  createConnectionRequest(w2, peer0, 0), 0)
    IN EmplaceFrontService(w3, coordinatorAddr, 0,
                           createConnectionRequest(w3, peer0, 1), 1)

\* case OpCode::ConnectionRequest, for a known peer
ProcessConnectionRequest(w, proto) ==
    LET peer == w.peers[proto.workerId]
    IN EmplaceFrontService(w, peer.address[proto.addressNo + 1], proto.workerId,
                           createConnectionResponse(w, peer, proto.addressNo),
                           proto.addressNo)

\* a promotion that copies the rays and leaves them pending as well
PromotePending_copies(w, treeletId) ==
    IF w.pendingQueue[treeletId] # <<>>
    THEN [w EXCEPT !.outQueueSize = @ + Len(w.pendingQueue[treeletId]),
                   !.outQueue[treeletId] = @ \o w.pendingQueue[treeletId]]
    ELSE w

\* the pending rays of a treelet become outbound rays
PromotePending(w, treeletId) ==
    IF w.pendingQueue[treeletId] # <<>>
    THEN [w EXCEPT !.outQueueSize = @ + Len(w.pendingQueue[treeletId]),
                   !.pendingQueueSize = @ - Len(w.pendingQueue[treeletId]),
                   !.outQueue[treeletId] = @ \o w.pendingQueue[treeletId],
                   !.pendingQueue[treeletId] = <<>>]
    ELSE w

\* the treelet is announced and its pending rays are left where they are
AnnounceTreelet_keepsPending(w, otherWorkerId, treeletId) ==
    [w EXCEPT !.peers[otherWorkerId].treelets = @ \cup {treeletId},
              !.treeletToWorker =
                  MapPut(@, treeletId,
                         Append(MapGet(@, treeletId, <<>>), otherWorkerId)),
              !.neededTreelets = @ \ {treeletId},
              !.requestedTreelets = @ \ {treeletId}]

\* the body of for (const auto treeletId : proto.treelet_ids())
AnnounceTreelet(w, otherWorkerId, treeletId) ==
    PromotePending(
        [w EXCEPT !.peers[otherWorkerId].treelets = @ \cup {treeletId},
                  !.treeletToWorker =
                      MapPut(@, treeletId,
                             Append(MapGet(@, treeletId, <<>>), otherWorkerId)),
                  !.neededTreelets = @ \ {treeletId},
                  !.requestedTreelets = @ \ {treeletId}],
        treeletId)

RECURSIVE AnnounceTreelets(_, _, _)
AnnounceTreelets(w, otherWorkerId, S) ==
    IF S = {} THEN w
    ELSE LET t == CHOOSE x \in S : \A y \in S : x <= y
         IN AnnounceTreelets(AnnounceTreelet(w, otherWorkerId, t),
                             otherWorkerId, S \ {t})

\* one answered interface is enough for Connected
MarkConnected_either(peer, addressNo) ==
    [peer EXCEPT !.connected[addressNo + 1] = TRUE, !.state = "Connected"]

\* peer.connected[address_no] = true; the state follows from both flags
MarkConnected(peer, addressNo) ==
    LET connected == [peer.connected EXCEPT ![addressNo + 1] = TRUE]
    IN [peer EXCEPT !.connected = connected,
                    !.state = IF connected[1] /\ connected[2]
                              THEN "Connected" ELSE "Connecting"]

\* ProcessConnectionResponse, except that the peer's seed is recorded only
\* with a response that is accepted
ProcessConnectionResponse_seedOnAccept(w, proto) ==
    LET otherWorkerId == proto.workerId IN
    IF otherWorkerId \notin DOMAIN w.peers THEN w
    ELSE LET peer == w.peers[otherWorkerId]
         IN IF peer.state # "Connected" /\ proto.yourSeed = mySeed
            THEN LET peer2 == [MarkConnected(peer, proto.addressNo)
                                  EXCEPT !.seed = proto.mySeed]
                     w2 == [w EXCEPT !.peers[otherWorkerId] = peer2]
                 IN IF peer2.state # "Connected" THEN w2
                    ELSE AnnounceTreelets(
                            [w2 EXCEPT !.peers[otherWorkerId].nextKeepAlive =
                                           w.now + KEEP_ALIVE_INTERVAL],
                            otherWorkerId, proto.treeletIds)
            ELSE w

\* ProcessConnectionResponse, except that a response from a peer that is
\* already Connected announces its treelets again
ProcessConnectionResponse_announcesAgain(w, proto) ==
    LET otherWorkerId == proto.workerId IN
    IF otherWorkerId \notin DOMAIN w.peers THEN w
    ELSE LET w1 == [w EXCEPT !.peers[otherWorkerId].seed = proto.mySeed]
             peer == w1.peers[otherWorkerId]
         IN IF proto.yourSeed = mySeed
            THEN LET peer2 == MarkConnected(peer, proto.addressNo)
                     w2 == [w1 EXCEPT !.peers[otherWorkerId] = peer2]
                 IN IF peer2.state # "Connected" THEN w2
                    ELSE AnnounceTreelets(
                            [w2 EXCEPT !.peers[otherWorkerId].nextKeepAlive =
                                           w.now + KEEP_ALIVE_INTERVAL],
                            otherWorkerId, proto.treeletIds)
            ELSE w1

\* case OpCode::ConnectionResponse
ProcessConnectionResponse(w, proto) ==
    LET otherWorkerId == proto.workerId IN
    IF otherWorkerId \notin DOMAIN w.peers THEN w
    ELSE LET w1 == [w EXCEPT !.peers[otherWorkerId].seed = proto.mySeed]
             peer == w1.peers[otherWorkerId]
         IN IF peer.state # "Connected" /\ proto.yourSeed = mySeed
            THEN LET peer2 == MarkConnected(peer, proto.addressNo)
                     w2 == [w1 EXCEPT !.peers[otherWorkerId] = peer2]
                 IN IF peer2.state # "Connected" THEN w2
                    ELSE AnnounceTreelets(
                            [w2 EXCEPT !.peers[otherWorkerId].nextKeepAlive =
                                           w.now + KEEP_ALIVE_INTERVAL],
                            otherWorkerId, proto.treeletIds)
            ELSE w1

\* the number of finished rays beyond which the Discard configuration clears
\* finishedQueue
DISCARD_THRESHOLD == 5000

\* createFinishedRay: the sample and the radiance of a finished ray; ray is
\* the identity of the ray object the entry was written from (history)
createFinishedRay(ray) ==
    [sampleId |-> ray.pathId, L |-> ray.Ld, ray |-> ray.id]

\* handleFinishedQueue, except that SendBack writes one message per ray
handleFinishedQueue_onePerRay(w) ==
    [w EXCEPT !.finishedQueue = <<>>,
              !.coordinatorWrites =
                  @ \o [i \in 1..Len(w.finishedQueue) |->
                          PlainMessage(w.workerId[1], "FinishedRays",
                                       [rays |-> <<createFinishedRay(
                                                       w.finishedQueue[i])>>])]]

\* handleFinishedQueue: SendBack writes every finished ray, front first, as
\* one record of one FinishedRays message to the coordinator
handleFinishedQueue(w) ==
    CASE w.config.finishedRayAction = "Discard" ->
            [w EXCEPT !.finishedQueue = <<>>]
      [] w.config.finishedRayAction = "SendBack" ->
            [w EXCEPT !.finishedQueue = <<>>,
                      !.coordinatorWrites =
                          Append(@, PlainMessage(
                                        w.workerId[1], "FinishedRays",
                                        [rays |-> [i \in 1..Len(w.finishedQueue) |->
                                                     createFinishedRay(
                                                         w.finishedQueue[i])]]))]
      [] w.config.finishedRayAction = "Upload" -> w

\* case Worker::State::Connecting of handlePeers
RequestConnection(w, peerId) ==
    LET peer == w.peers[peerId]
        w1 == EmplaceFrontService(w, peer.address[1], peer.id,
                                  createConnectionRequest(w, peer, 0), 0)
        w2 == EmplaceFrontService(w1, peer.address[2], peer.id,
                                  createConnectionRequest(w1, peer, 1), 1)
    IN [w2 EXCEPT !.peers[peerId].tries = @ + 1]

\* KeepAlive, except that the coordinator is pinged as well
KeepAlive_pingsCoordinator(w, peerId) ==
    LET peer == w.peers[peerId]
    IN IF peer.nextKeepAlive < w.now
       THEN [w EXCEPT !.peers[peerId].nextKeepAlive = @ + KEEP_ALIVE_INTERVAL,
                      !.servicePackets =
                          Append(@, ServicePacket(
                                        peer.address[1], peer.id,
                                        PlainMessage(w.workerId[1], "Ping",
                                                     w.workerId[1])))]
       ELSE w

\* case Worker::State::Connected of handlePeers
KeepAlive(w, peerId) ==
    LET peer == w.peers[peerId]
    IN IF peerId > 0 /\ peer.nextKeepAlive < w.now
       THEN [w EXCEPT !.peers[peerId].nextKeepAlive = @ + KEEP_ALIVE_INTERVAL,
                      !.servicePackets =
                          Append(@, ServicePacket(
                                        peer.address[1], peer.id,
                                        PlainMessage(w.workerId[1], "Ping",
                                                     w.workerId[1])))]
       ELSE w

RECURSIVE PeerLoop(_, _)
\* for (auto it = peers.begin(); it != peers.end(); it++)
PeerLoop(w, S) ==
    IF S = {} THEN w
    ELSE LET peerId == CHOOSE x \in S : \A y \in S : x <= y
         IN PeerLoop(IF w.peers[peerId].state = "Connecting"
                     THEN RequestConnection(w, peerId)
                     ELSE KeepAlive(w, peerId),
                     S \ {peerId})

handlePeers(w) == PeerLoop(w, DOMAIN w.peers)

RECURSIVE ProcessSendRays(_, _)
\* case OpCode::SendRays: every record of the payload becomes a ray object
ProcessSendRays(w, rays) ==
    IF rays = <<>> THEN w
    ELSE LET r == Head(rays)
             ray == [id |-> w.nextRayId, pathId |-> r.pathId,
                     treelet |-> r.treelet, toVisitEmpty |-> r.toVisitEmpty,
                     hit |-> r.hit, isShadowRay |-> r.isShadowRay, Ld |-> r.Ld]
         IN ProcessSendRays(pushRayQueue([w EXCEPT !.nextRayId = @ + 1], ray),
                            Tail(rays))

\* the flag is left as it is
terminate_noop(w) == w

(***************************************************************************)
(* Benchmark mode.  benchmark holds the mode (Off, Running until the       *)
(* duration timer fires, then Ended), the interfaces initBenchmark's        *)
(* callbacks captured, benchmarkData's checkpoint and totals, and, as       *)
(* history, the datagrams each socket has sent and received since.          *)
(***************************************************************************)
\* bytes of the payload of a benchmark Ping
BENCHMARK_PAYLOAD_LEN == 1300

NoNetStats ==
    [bytesSent |-> 0, bytesReceived |-> 0, packetsSent |-> 0,
     packetsReceived |-> 0]

\* NetStats::merge
merge(stats, other) ==
    [bytesSent |-> stats.bytesSent + other.bytesSent,
     bytesReceived |-> stats.bytesReceived + other.bytesReceived,
     packetsSent |-> stats.packetsSent + other.packetsSent,
     packetsReceived |-> stats.packetsReceived + other.packetsReceived]

NoBenchmark ==
    [state |-> "Off", destination |-> 0, sendIface |-> 0, recvIface |-> 0,
     checkpoint |-> NoNetStats, stats |-> NoNetStats,
     sent |-> <<0, 0>>, received |-> <<0, 0>>]

\* initBenchmark: peers.at(destination) throws for a worker that is not known
initBenchmark(w, duration, destination, rate, addressNo) ==
    IF destination \notin DOMAIN w.peers THEN [w EXCEPT !.failed = TRUE]
    ELSE [w EXCEPT !.benchmark =
                [NoBenchmark EXCEPT !.state = "Running",
                                    !.destination = destination,
                                    !.sendIface = addressNo,
                                    !.recvIface = 1 - addressNo]]

\* recvCallback
recvCallback(w, iface, length) ==
    LET w1 == [w EXCEPT !.benchmark.received[iface + 1] = @ + 1]
    IN IF iface = w.benchmark.recvIface
       THEN [w1 EXCEPT !.benchmark.checkpoint.bytesReceived = @ + length,
                       !.benchmark.checkpoint.packetsReceived = @ + 1]
       ELSE w1

\* sendCallback: the Ping goes out on the socket of iface, to the address
\* of the destination on that interface
sendCallback(w, iface) ==
    LET w1 == [w EXCEPT !.benchmark.sent[iface + 1] = @ + 1]
    IN IF iface = w.benchmark.sendIface
       THEN [w1 EXCEPT !.benchmark.checkpoint.bytesSent =
                           @ + PACKET_HEADER_LEN + BENCHMARK_PAYLOAD_LEN,
                       !.benchmark.checkpoint.packetsSent = @ + 1]
       ELSE w1

\* the callback of checkpointTimer
checkpointCallback(w) ==
    [w EXCEPT !.benchmark.stats = merge(@, w.benchmark.checkpoint),
              !.benchmark.checkpoint = NoNetStats]

\* the callback of benchmarkTimer: CancelAll ends the loop
benchmarkTimerCallback(w) == [w EXCEPT !.benchmark.state = "Ended"]

\* LambdaWorker::terminate
terminate(w) == [w EXCEPT !.terminated = TRUE]

\* processMessage: the state it leaves and whether the message is done with
processMessage(w, message) ==
    LET proto == message.payload
        done(w1) == [w |-> w1, ok |-> TRUE]
    IN CASE message.opcode = "Hey" -> done(ProcessHey(w, proto))
         [] message.opcode = "Ping" -> done(w)
         [] message.opcode = "GetObjects" ->
                done(initializeScene(getObjects(w, proto.treelets)))
         [] message.opcode = "GenerateRays" -> done(generateRays(w, proto.rays))
         [] message.opcode = "ConnectTo" -> done(handleConnectTo(w, proto))
         [] message.opcode = "MultipleConnect" ->
                done(MultipleConnect(w, proto.peers))
         [] message.opcode = "ConnectionRequest" ->
                IF proto.workerId \notin DOMAIN w.peers
                THEN [w |-> w, ok |-> FALSE]
                ELSE done(ProcessConnectionRequest(w, proto))
         [] message.opcode = "ConnectionResponse" ->
                done(ProcessConnectionResponse(w, proto))
         [] message.opcode = "SendRays" -> done(ProcessSendRays(w, proto.rays))
         [] message.opcode = "Bye" -> done(terminate(w))
         [] message.opcode = "StartBenchmark" ->
                done(initBenchmark(w, proto.duration, proto.destination,
                                   proto.rate, proto.addressNo))
         [] OTHER -> done([w EXCEPT !.failed = TRUE])

RECURSIVE MessageLoop_dropsDeferred(_, _, _)
\* the messages not done with are dropped
MessageLoop_dropsDeferred(w, messages, unprocessedMessages) ==
    IF messages = <<>> THEN [w EXCEPT !.messageParser = <<>>]
    ELSE MessageLoop_dropsDeferred(processMessage(w, Head(messages)).w,
                                   Tail(messages), unprocessedMessages)

RECURSIVE MessageLoop(_, _, _)
\* while (!messageParser.empty()): the messages not done with are kept
MessageLoop(w, messages, unprocessedMessages) ==
    IF messages = <<>> THEN [w EXCEPT !.messageParser = unprocessedMessages]
    ELSE LET r == processMessage(w, Head(messages))
         IN MessageLoop(r.w, Tail(messages),
                        IF r.ok THEN unprocessedMessages
                        ELSE Append(unprocessedMessages, Head(messages)))

handleMessages(w) == MessageLoop(w, w.messageParser, <<>>)

\* the TCP callback: the parsed message is moved to messageParser
tcpReceive(w, message) == [w EXCEPT !.messageParser = Append(@, message)]


(***************************************************************************)
(* The UDP transport                                                       *)
(***************************************************************************)
\* addresses in the order of std::map<Address, ...>
AddrLess(x, y) == x[1] < y[1] \/ (x[1] = y[1] /\ x[2] < y[2])
MinAddr(S) == CHOOSE x \in S : \A y \in S \ {x} : AddrLess(x, y)

RemoveAt(s, i) == SubSeq(s, 1, i - 1) \o SubSeq(s, i + 1, Len(s))

\* bytes of one (seqNo, tracked, attempt) triple of an Ack payload
ACK_TRIPLE_LEN == 11

\* the triple of a sequence number seen before is not queued again
NoteToBeAcked_onlyNew(w, source, msg) ==
    IF msg.sequenceNumber \in MapGet(w.receivedPacketSeqNos, source, {})
    THEN w
    ELSE [w EXCEPT !.toBeAcked =
            MapPut(@, source,
                   Append(MapGet(@, source, <<>>),
                          <<msg.sequenceNumber, msg.tracked, msg.attempt>>))]

\* it->reliable(): the triple is queued for acknowledgement
NoteToBeAcked(w, source, msg) ==
    [w EXCEPT !.toBeAcked =
        MapPut(@, source,
               Append(MapGet(@, source, <<>>),
                      <<msg.sequenceNumber, msg.tracked, msg.attempt>>))]

\* received.contains(seqNo)
AlreadyReceived(w, source, seqNo) ==
    seqNo \in MapGet(w.receivedPacketSeqNos, source, {})

\* the set is created for the source and the sequence number is not recorded
NoteReceived_forgets(w, source, seqNo) ==
    [w EXCEPT !.receivedPacketSeqNos =
        MapPut(@, source, MapGet(@, source, {}))]

\* received.insert(seqNo)
NoteReceived(w, source, seqNo) ==
    [w EXCEPT !.receivedPacketSeqNos =
        MapPut(@, source, MapGet(@, source, {}) \cup {seqNo})]

\* the Ack branch: every listed sequence number is recorded
NoteAcks(w, source, acks) ==
    [w EXCEPT !.receivedAcks =
        MapPut(@, source,
               MapGet(@, source, {}) \cup {acks[k][1] : k \in 1..Len(acks)})]

\* history: a reliable message stays in the queue for handleMessages
NoteForwarded(w, source, msg) ==
    IF msg.reliable /\ msg.opcode # "Ack"
    THEN [w EXCEPT !.forwarded =
            MapPut(@, <<source, msg.sequenceNumber>>,
                   MapGet(@, <<source, msg.sequenceNumber>>, 0) + 1)]
    ELSE w

RECURSIVE ReceiveWalk(_, _, _)
\* the walk over completed_messages from its end: i is the position of *it
\* after it--
ReceiveWalk(w, i, source) ==
    IF i = 0 THEN w
    ELSE LET msg == w.messageParser[i] IN
         IF msg.read THEN w
         ELSE LET w1 == [w EXCEPT !.messageParser[i].read = TRUE]
                  w2 == IF msg.reliable THEN NoteToBeAcked(w1, source, msg)
                        ELSE w1
              IN IF msg.reliable
                    /\ AlreadyReceived(w2, source, msg.sequenceNumber)
                 THEN ReceiveWalk([w2 EXCEPT !.messageParser = RemoveAt(@, i)],
                                  i - 1, source)
                 ELSE LET w3 == IF msg.reliable
                                THEN NoteReceived(w2, source, msg.sequenceNumber)
                                ELSE w2
                      IN IF msg.opcode = "Ack"
                         THEN ReceiveWalk(
                                 [NoteAcks(w3, source, msg.payload.acks)
                                     EXCEPT !.messageParser = RemoveAt(@, i)],
                                 i - 1, source)
                         ELSE ReceiveWalk(NoteForwarded(w3, source, msg),
                                          i - 1, source)

\* handleUdpReceive: the datagram is one message from address source
handleUdpReceive(w, source, message) ==
    LET w1 == [w EXCEPT !.messageParser = Append(@, message)]
    IN ReceiveWalk(w1, Len(w1.messageParser), source)

\* the position of the first service packet for the interface, or 0
FirstService(w, iface) ==
    IF \E i \in 1..Len(w.servicePackets) : w.servicePackets[i].iface = iface
    THEN CHOOSE i \in 1..Len(w.servicePackets) :
            /\ w.servicePackets[i].iface = iface
            /\ \A j \in 1..(i - 1) : w.servicePackets[j].iface # iface
    ELSE 0

\* SendRayPacket, except that the sent packet is put at the front of the
\* outstanding packets
SendRayPacket_pushFront(w) ==
    LET packet == Head(w.rayPackets)
        w1 == IF packet.reliable
              THEN [w EXCEPT !.outstandingRayPackets =
                        <<<<w.now + PACKET_TIMEOUT, packet>>>> \o @]
              ELSE w
    IN [w1 EXCEPT !.rayPackets = Tail(@)]

\* the tail of handleUdpSend: the front ray packet goes out on interface 0
SendRayPacket(w) ==
    LET packet == Head(w.rayPackets)
        w1 == IF packet.reliable
              THEN [w EXCEPT !.outstandingRayPackets =
                        Append(@, <<w.now + PACKET_TIMEOUT, packet>>)]
              ELSE w
    IN [w1 EXCEPT !.rayPackets = Tail(@)]

\* ray packets go out before service packets
handleUdpSend_raysFirst(w, iface) ==
    LET i == FirstService(w, iface)
    IN IF iface = 0 /\ w.rayPackets # <<>> THEN SendRayPacket(w)
       ELSE IF i # 0 THEN [w EXCEPT !.servicePackets = RemoveAt(@, i)]
       ELSE w

\* the second socket sends ray packets as well
handleUdpSend_anySocket(w, iface) ==
    LET i == FirstService(w, iface)
    IN IF i # 0
       THEN [w EXCEPT !.servicePackets = RemoveAt(@, i)]
       ELSE IF w.rayPackets = <<>> THEN w
       ELSE SendRayPacket(w)

handleUdpSend(w, iface) ==
    LET i == FirstService(w, iface)
    IN IF i # 0
       THEN [w EXCEPT !.servicePackets = RemoveAt(@, i)]
       ELSE IF iface # 0 \/ w.rayPackets = <<>> THEN w
       ELSE SendRayPacket(w)

\* AckPacket, except that the Ack message asks to be acknowledged
AckPacket_reliable(w, address, destId, ack) ==
    LET msg == Message(w.workerId[1], "Ack", [acks |-> ack], TRUE, w.ackId, FALSE)
    IN [ServicePacket(address, destId, msg)
           EXCEPT !.ackPacket = TRUE, !.ackId = w.ackId]

\* the Ack service packet for the triples gathered in ack
AckPacket(w, address, destId, ack) ==
    LET msg == Message(w.workerId[1], "Ack", [acks |-> ack], FALSE, w.ackId, FALSE)
    IN [ServicePacket(address, destId, msg)
           EXCEPT !.ackPacket = TRUE, !.ackId = w.ackId]

RECURSIVE AckLoop_newestFirst(_, _, _, _, _)
\* AckLoop, except that a triple is put before those gathered so far
AckLoop_newestFirst(w, address, destId, i, ack) ==
    LET received == w.toBeAcked[address] IN
    IF ~(i < Len(received)) THEN w
    ELSE LET ack1 == <<received[i + 1]>> \o ack
         IN IF Len(ack1) * ACK_TRIPLE_LEN >= UDP_MTU_BYTES
               \/ i = Len(received) - 1
            THEN AckLoop_newestFirst(
                     [w EXCEPT !.servicePackets =
                                   Append(@, AckPacket(w, address, destId, ack1)),
                               !.ackId = @ + 1],
                     address, destId, i + 1, <<>>)
            ELSE AckLoop_newestFirst(w, address, destId, i + 1, ack1)

RECURSIVE AckLoop(_, _, _, _, _)
\* for (i = 0; i < received.size(); i++): ack holds the triples gathered so
\* far
AckLoop(w, address, destId, i, ack) ==
    LET received == w.toBeAcked[address] IN
    IF ~(i < Len(received)) THEN w
    ELSE LET ack1 == Append(ack, received[i + 1])
         IN IF Len(ack1) * ACK_TRIPLE_LEN >= UDP_MTU_BYTES
               \/ i = Len(received) - 1
            THEN AckLoop([w EXCEPT !.servicePackets =
                               Append(@, AckPacket(w, address, destId, ack1)),
                                   !.ackId = @ + 1],
                         address, destId, i + 1, <<>>)
            ELSE AckLoop(w, address, destId, i + 1, ack1)

RECURSIVE SendAcks(_, _)
\* for (auto& receivedKv : toBeAcked): addressToWorker[address] adds the
\* address with worker id 0 when it is not known
SendAcks(w, S) ==
    IF S = {} THEN [w EXCEPT !.toBeAcked = EmptyMap]
    ELSE LET address == MinAddr(S)
             destId == MapGet(w.addressToWorker, address, 0)
             w1 == [w EXCEPT !.addressToWorker = MapPut(@, address, destId)]
         IN SendAcks(AckLoop(w1, address, destId, 0, <<>>), S \ {address})

\* packet.incrementAttempts()
incrementAttempts(packet) == [packet EXCEPT !.attempt = @ + 1]

\* the packet is pushed back with the attempt count it had
Requeued_keepsAttempt(packet) ==
    [packet EXCEPT !.retransmission = TRUE]

\* the packet as it is pushed back onto rayPackets
Requeued(packet) ==
    [incrementAttempts(packet) EXCEPT !.retransmission = TRUE]

\* the front outstanding packet is pushed back whether or not it was
\* acknowledged
RetransmitFront_requeuesAcked(w) ==
    LET packet == Head(w.outstandingRayPackets)[2]
    IN [w EXCEPT !.rayPackets = Append(@, Requeued(packet)),
                 !.outstandingRayPackets = Tail(@)]

\* the expired front packet is dropped whether or not it was acknowledged
RetransmitFront_dropsExpired(w) ==
    [w EXCEPT !.outstandingRayPackets = Tail(@)]

\* the body of the retransmission loop for the front outstanding packet
RetransmitFront(w) ==
    LET packet == Head(w.outstandingRayPackets)[2]
        w1 == [w EXCEPT !.receivedAcks =
                  MapPut(@, packet.destination,
                         MapGet(@, packet.destination, {}))]
        thisReceivedAcks == w1.receivedAcks[packet.destination]
        w2 == IF packet.sequenceNumber \notin thisReceivedAcks
              THEN [w1 EXCEPT !.rayPackets = Append(@, Requeued(packet))]
              ELSE w1
    IN [w2 EXCEPT !.outstandingRayPackets = Tail(@)]

\* the condition of the retransmission loop
RetransmitDue(w) ==
    /\ DOMAIN w.receivedAcks # {}
    /\ w.outstandingRayPackets # <<>>
    /\ Head(w.outstandingRayPackets)[1] <= w.now

RECURSIVE RetransmitLoop(_)
RetransmitLoop(w) ==
    IF ~RetransmitDue(w) THEN w ELSE RetransmitLoop(RetransmitFront(w))

handleRayAcknowledgements(w) ==
    RetransmitLoop(SendAcks(w, DOMAIN w.toBeAcked))


\* the worker's variables hold the state r
HoldsState(r) ==
    /\ config = r.config
    /\ workerId = r.workerId
    /\ terminated = r.terminated
    /\ failed = r.failed
    /\ initialized = r.initialized
    /\ treeletIds = r.treeletIds
    /\ peers = r.peers
    /\ addressToWorker = r.addressToWorker
    /\ treeletToWorker = r.treeletToWorker
    /\ neededTreelets = r.neededTreelets
    /\ requestedTreelets = r.requestedTreelets
    /\ rayQueue = r.rayQueue
    /\ outQueue = r.outQueue
    /\ pendingQueue = r.pendingQueue
    /\ finishedQueue = r.finishedQueue
    /\ finishedPathIds = r.finishedPathIds
    /\ outQueueSize = r.outQueueSize
    /\ pendingQueueSize = r.pendingQueueSize
    /\ sequenceNumbers = r.sequenceNumbers
    /\ rayPackets = r.rayPackets
    /\ servicePackets = r.servicePackets
    /\ outstandingRayPackets = r.outstandingRayPackets
    /\ toBeAcked = r.toBeAcked
    /\ receivedAcks = r.receivedAcks
    /\ receivedPacketSeqNos = r.receivedPacketSeqNos
    /\ messageParser = r.messageParser
    /\ ackId = r.ackId
    /\ now = r.now
    /\ nextRayId = r.nextRayId
    /\ constructed = r.constructed
    /\ forwarded = r.forwarded
    /\ coordinatorWrites = r.coordinatorWrites
    /\ benchmark = r.benchmark

\* the worker is alone and in state r
IsState(r) == HoldsState(r) /\ peerWorker = None /\ pluralized = None

\* the worker's state after the constructor, for a configuration
ConstructedState(c) ==
    [config |-> c, workerId |-> None, terminated |-> FALSE, failed |-> FALSE,
     initialized |-> FALSE, treeletIds |-> {}, peers |-> EmptyMap,
     addressToWorker |-> EmptyMap, treeletToWorker |-> EmptyMap,
     neededTreelets |-> {}, requestedTreelets |-> {}, rayQueue |-> <<>>,
     outQueue |-> [t \in Treelets |-> <<>>],
     pendingQueue |-> [t \in Treelets |-> <<>>], finishedQueue |-> <<>>,
     finishedPathIds |-> <<>>, outQueueSize |-> 0, pendingQueueSize |-> 0,
     sequenceNumbers |-> EmptyMap, rayPackets |-> <<>>,
     servicePackets |-> <<>>, outstandingRayPackets |-> <<>>,
     toBeAcked |-> EmptyMap, receivedAcks |-> EmptyMap,
     receivedPacketSeqNos |-> EmptyMap, messageParser |-> <<>>, ackId |-> 0,
     now |-> 0, nextRayId |-> 1, constructed |-> <<>>,
     forwarded |-> EmptyMap,
     coordinatorWrites |-> <<PlainMessage(0, "Hey", <<>>)>>,
     benchmark |-> NoBenchmark]

\* the state after the constructor
Constructed == \E c \in Configs : IsState(ConstructedState(c))

(***************************************************************************)
(* The environment: what the coordinator and the peers may send            *)
(***************************************************************************)
Queued(opcode) ==
    \E i \in 1..Len(messageParser) : messageParser[i].opcode = opcode

\* rays the queued messages will create when they are processed
RECURSIVE QueuedRays(_)
QueuedRays(messages) ==
    IF messages = <<>> THEN 0
    ELSE (IF Head(messages).opcode \in {"GenerateRays", "SendRays"}
          THEN Len(Head(messages).payload.rays) ELSE 0)
         + QueuedRays(Tail(messages))

\* ray objects that may still be created when max may ever be
RayBudget(max) == max + 1 - nextRayId - QueuedRays(messageParser)

HeyMessages ==
    {PlainMessage(0, "Hey", [workerId |-> id]) : id \in HeyIds}

GetObjectsMessages ==
    {PlainMessage(0, "GetObjects", [treelets |-> {t}]) : t \in Treelets}

GenerateRaysMessages ==
    {PlainMessage(0, "GenerateRays", [rays |-> <<t>>]) : t \in Treelets}

ConnectToMessages(P) ==
    {PlainMessage(0, "ConnectTo",
                  [workerId |-> p, address |-> <<Addr(p, 0), Addr(p, 1)>>]) :
        p \in P}

ConnectionResponses(P, seeds, treeletSets) ==
    {PlainMessage(p, "ConnectionResponse",
                  [workerId |-> p, mySeed |-> p, yourSeed |-> ys,
                   addressNo |-> i, treeletIds |-> ts]) :
        p \in P, ys \in seeds, i \in Ifaces, ts \in treeletSets}

\* the coordinator answers the worker's Hey first, and asks for rays only
\* after it has assigned objects
CoordinatorMay(m) ==
    CASE m.opcode = "Hey" -> workerId = None /\ ~Queued("Hey")
      [] m.opcode = "GenerateRays" ->
            /\ workerId # None \/ Queued("Hey")
            /\ initialized \/ Queued("GetObjects")
      [] OTHER -> workerId # None \/ Queued("Hey")

Running == ~terminated /\ ~failed /\ benchmark.state # "Ended"

\* the actions initBenchmark deactivates run outside benchmark mode only
Activated == benchmark.state = "Off"

(***************************************************************************)
(* Actions: one per callback of the reactor                                *)
(***************************************************************************)
\* the TCP callback of the coordinator connection
TcpReceive(M, cap) ==
    /\ Running
    /\ Len(messageParser) < cap
    /\ \E m \in M :
        /\ CoordinatorMay(m)
        /\ Commit(tcpReceive(W, m))

\* UdpReceive and UdpReceive2: a datagram from a peer's address; a handshake
\* message comes from the interface it names, ray packets and service
\* packets from the peer's first socket
UdpReceive(M, cap) ==
    /\ Running
    /\ Activated
    /\ workerId # None
    /\ Len(messageParser) < cap
    /\ \E m \in M, i \in Ifaces :
        /\ m.opcode \in {"ConnectionResponse", "ConnectionRequest"}
              => m.payload.addressNo = i
        /\ m.opcode \in {"SendRays", "Ack"} => i = 0
        /\ Commit(handleUdpReceive(W, Addr(m.senderId, i), m))

\* Messages
HandleMessages ==
    /\ Running
    /\ messageParser # <<>>
    /\ Commit(handleMessages(W))

\* RayQueue
HandleRayQueue ==
    /\ Running
    /\ Activated
    /\ rayQueue # <<>>
    /\ \E oracle \in Oracles(SubSeq(rayQueue, 1,
                                    IF Len(rayQueue) < MAX_RAYS
                                    THEN Len(rayQueue) ELSE MAX_RAYS),
                             MaxRays + 1 - nextRayId) :
        Commit(handleRayQueue(W, oracle))

\* OutQueue
HandleOutQueue(RS) ==
    /\ Running
    /\ Activated
    /\ outQueueSize > 0
    /\ \E size \in Sizes(W, RS), pick \in Picks(W) :
        Commit(handleOutQueue(W, size, pick))

\* UdpSend and UdpSend2, when the channel is within pace
HandleUdpSend(iface) ==
    /\ Running
    /\ Activated
    /\ IF iface = 0 THEN servicePackets # <<>> \/ rayPackets # <<>>
       ELSE servicePackets # <<>>
    /\ Commit(handleUdpSend(W, iface))

\* RayAcks
HandleRayAcknowledgements ==
    /\ Running
    /\ Activated
    /\ \/ DOMAIN toBeAcked # {}
       \/ /\ DOMAIN receivedAcks # {}
          /\ outstandingRayPackets # <<>>
          /\ Head(outstandingRayPackets)[1] <= now
    /\ Commit(handleRayAcknowledgements(W))

\* Peers
HandlePeers ==
    /\ Running
    /\ Activated
    /\ DOMAIN peers # {}
    /\ servicePackets = <<>>
    /\ \A p \in DOMAIN peers : peers[p].tries < MaxTries
    /\ Commit(handlePeers(W))

\* packet_clock advances
Tick ==
    /\ Running
    /\ now < MaxTime
    /\ Commit([W EXCEPT !.now = @ + 1])

(***************************************************************************)
(* The ray pipeline: the coordinator assigns treelets, announces a peer    *)
(* and asks for rays; the peer answers the handshake.  The environment     *)
(* sends no message twice and none that would change nothing.              *)
(***************************************************************************)
InQueue(m) ==
    \E i \in 1..Len(messageParser) :
        messageParser[i].opcode = m.opcode /\ messageParser[i] = m

Useful(m) ==
    /\ ~InQueue(m)
    /\ CASE m.opcode = "GenerateRays" ->
                Len(m.payload.rays) <= RayBudget(MaxRays)
         [] m.opcode = "GetObjects" -> ~(m.payload.treelets \subseteq treeletIds)
         [] m.opcode = "ConnectTo" -> m.payload.workerId \notin DOMAIN peers
         [] m.opcode = "ConnectionResponse" ->
                /\ m.payload.workerId \in DOMAIN peers
                /\ ~peers[m.payload.workerId].connected[m.payload.addressNo + 1]
         [] OTHER -> TRUE

PipelineTcp ==
    {m \in HeyMessages \cup GetObjectsMessages \cup GenerateRaysMessages
            \cup ConnectToMessages({2}) : Useful(m)}

PipelineUdp ==
    {m \in ConnectionResponses({2}, {mySeed}, {{t} : t \in Treelets}) :
        Useful(m)}

PipelineSizes == {659, 1322}

ReliableConfig == [sendReliably |-> TRUE, finishedRayAction |-> "SendBack"]

Init == IsState(ConstructedState(ReliableConfig))

Next ==
    \/ TcpReceive(PipelineTcp, MaxQueue)
    \/ UdpReceive(PipelineUdp, MaxQueue)
    \/ HandleMessages
    \/ HandleRayQueue
    \/ HandleOutQueue(PipelineSizes)

Spec == Init /\ [][Next]_vars

\* the reactor runs every action whose predicate stays true
FairSpec ==
    /\ Init /\ [][Next]_vars
    /\ WF_vars(HandleMessages)
    /\ WF_vars(HandleRayQueue)
    /\ WF_vars(HandleOutQueue(PipelineSizes))

(***************************************************************************)
(* The packet assembler.  The worker starts where the coordinator has      *)
(* named it, announced peers 2 and 3, both peers have answered the         *)
(* handshake on both interfaces (peer 2 holds one treelet, peer 3 all),    *)
(* and the coordinator has assigned objects and asked for up to MaxOut     *)
(* rays; more rays may be asked for later.                                 *)
(***************************************************************************)
Handshake(p, ts) ==
    <<PlainMessage(p, "ConnectionResponse",
                   [workerId |-> p, mySeed |-> p, yourSeed |-> mySeed,
                    addressNo |-> 0, treeletIds |-> ts]),
      PlainMessage(p, "ConnectionResponse",
                   [workerId |-> p, mySeed |-> p, yourSeed |-> mySeed,
                    addressNo |-> 1, treeletIds |-> ts])>>

\* the messages that lead to the assembler's starting state
AssemblyScript(own, ts2, ts3, gen) ==
    <<PlainMessage(0, "Hey", [workerId |-> CHOOSE id \in HeyIds : TRUE]),
      PlainMessage(0, "ConnectTo",
                   [workerId |-> 2, address |-> <<Addr(2, 0), Addr(2, 1)>>]),
      PlainMessage(0, "ConnectTo",
                   [workerId |-> 3, address |-> <<Addr(3, 0), Addr(3, 1)>>])>>
    \o Handshake(2, ts2) \o Handshake(3, ts3)
    \o <<PlainMessage(0, "GetObjects", [treelets |-> own]),
         PlainMessage(0, "GenerateRays", [rays |-> gen])>>

\* sequences over S of length 1..n
RECURSIVE SeqsUpTo(_, _)
SeqsUpTo(S, n) ==
    IF n = 0 THEN {}
    ELSE LET shorter == SeqsUpTo(S, n - 1)
         IN {<<x>> : x \in S} \cup shorter
                \cup {Append(q, x) : q \in shorter, x \in S}

AssemblyInit ==
    \E c \in Configs, t2 \in Treelets, gen \in SeqsUpTo(Treelets, MaxOut) :
        IsState(MessageLoop(ConstructedState(c),
                            AssemblyScript({}, {t2}, Treelets, gen), <<>>))

AssemblyTcp ==
    {m \in GenerateRaysMessages :
        ~InQueue(m) /\ Len(m.payload.rays) <= RayBudget(MaxOut)}

AssemblyNext ==
    \/ TcpReceive(AssemblyTcp, MaxQueue)
    \/ HandleMessages
    \/ HandleOutQueue(RaySizes)

AssemblySpec == AssemblyInit /\ [][AssemblyNext]_vars

RECURSIVE DrainService(_)
\* the handshake packets leave through both sockets
DrainService(w) ==
    IF w.servicePackets = <<>> THEN w
    ELSE DrainService(handleUdpSend(handleUdpSend(w, 0), 1))

(***************************************************************************)
(* The receiver.  The coordinator has named the worker and assigned it     *)
(* treelet 0; peers 2 and 3 send it reliable ray packets, which the        *)
(* network may deliver late, out of order and more than once.  Each packet *)
(* carries one ray, whose path id names the packet it was sent in.         *)
(***************************************************************************)
ReceiveScript ==
    <<PlainMessage(0, "Hey", [workerId |-> CHOOSE id \in HeyIds : TRUE]),
      PlainMessage(0, "GetObjects", [treelets |-> {0}])>>

OriginPath(p, seqNo) == p * (MaxSeqNo + 1) + seqNo

\* the ray packets peer p may have sent with sequence numbers up to maxSeqNo,
\* at any attempt
RayDatagrams(p, maxSeqNo) ==
    {[Message(p, "SendRays",
              [rays |-> <<[pathId |-> OriginPath(p, seqNo), treelet |-> 0,
                           toVisitEmpty |-> FALSE, hit |-> FALSE,
                           isShadowRay |-> FALSE, Ld |-> 0]>>],
              TRUE, seqNo, FALSE) EXCEPT !.attempt = a] :
        seqNo \in 0..maxSeqNo, a \in 0..MaxAttempt}

\* peer 2 has sent packets 0..MaxSeqNo and peer 3 its first packet
SentDatagrams == RayDatagrams(2, MaxSeqNo) \cup RayDatagrams(3, 0)

\* triples waiting in toBeAcked
RECURSIVE PendingAcks(_, _)
PendingAcks(m, S) ==
    IF S = {} THEN 0
    ELSE LET x == CHOOSE y \in S : TRUE
         IN Len(m[x]) + PendingAcks(m, S \ {x})

\* the peers send while the worker keeps up with its acknowledgements
ReceiveUdp ==
    {m \in SentDatagrams :
        /\ ackId < MaxAckId
        /\ PendingAcks(toBeAcked, DOMAIN toBeAcked) < MaxBacklog
        /\ Len(servicePackets) < MaxService}

PingMessages == {PlainMessage(0, "Ping", <<>>)}

ReceiveInit ==
    IsState(DrainService(MessageLoop(ConstructedState(ReliableConfig),
                                     ReceiveScript, <<>>)))

ReceiveNext ==
    \/ TcpReceive(PingMessages, MaxBacklog)
    \/ UdpReceive(ReceiveUdp, MaxBacklog)
    \/ HandleMessages
    \/ HandleRayAcknowledgements
    \/ HandleUdpSend(0)

ReceiveSpec == ReceiveInit /\ [][ReceiveNext]_vars

(***************************************************************************)
(* The sender.  Peers 2 and 3 are connected and hold treelets 0 and 1; the *)
(* worker holds none, so the rays the coordinator asks for all leave in    *)
(* reliable packets of one ray each.  The peers acknowledge packets they   *)
(* were sent, or do not, while the packet clock advances.                  *)
(***************************************************************************)
RetransmitInit ==
    \E gen \in SeqsUpTo(Treelets, MaxRays) :
        IsState(DrainService(
            MessageLoop(ConstructedState(ReliableConfig),
                        AssemblyScript({}, {0}, {1}, gen), <<>>)))

RetransmitSizes == {659}

\* an acknowledgement of one packet the peer was sent
AckMessages(P) ==
    {Message(p, "Ack", [acks |-> <<<<seqNo, FALSE, a>>>>], FALSE, 0, FALSE) :
        p \in P, seqNo \in 0..MaxSeqNo, a \in 0..MaxAttempt}

\* the peer has been sent the packet it acknowledges, at that attempt, and
\* acknowledges it once; the acknowledgement may come after the packet was
\* queued again
RetransmitUdp ==
    {m \in AckMessages({2, 3}) :
        LET ack == m.payload.acks[1]
            dest == Addr(m.senderId, 0)
        IN /\ ack[1] \notin MapGet(receivedAcks, dest, {})
           /\ \/ \E i \in DOMAIN outstandingRayPackets :
                   LET packet == outstandingRayPackets[i][2]
                   IN /\ packet.destination = dest
                      /\ packet.sequenceNumber = ack[1]
                      /\ ack[3] <= packet.attempt
              \/ \E i \in DOMAIN rayPackets :
                   LET packet == rayPackets[i]
                   IN /\ packet.destination = dest
                      /\ packet.sequenceNumber = ack[1]
                      /\ ack[3] < packet.attempt}

RetransmitNext ==
    \/ HandleOutQueue(RetransmitSizes)
    \/ HandleUdpSend(0)
    \/ UdpReceive(RetransmitUdp, MaxQueue)
    \/ HandleRayAcknowledgements
    \/ Tick

RetransmitSpec == RetransmitInit /\ [][RetransmitNext]_vars

(***************************************************************************)
(* The timeout.  The sender of RetransmitSpec while the coordinator keeps  *)
(* pinging, so the worker never comes to rest; the reactor runs the        *)
(* Messages and RayAcks actions whenever their predicates stay true.  The  *)
(* peers acknowledge or stay silent.                                       *)
(***************************************************************************)
TimeoutTcp == {m \in PingMessages : ~InQueue(m)}

TimeoutNext ==
    \/ TcpReceive(TimeoutTcp, MaxQueue)
    \/ HandleMessages
    \/ HandleOutQueue(RetransmitSizes)
    \/ HandleUdpSend(0)
    \/ UdpReceive(RetransmitUdp, MaxQueue)
    \/ HandleRayAcknowledgements
    \/ Tick

TimeoutSpec ==
    /\ RetransmitInit /\ [][TimeoutNext]_vars
    /\ WF_vars(TcpReceive(TimeoutTcp, MaxQueue))
    /\ WF_vars(HandleMessages)
    /\ WF_vars(HandleRayAcknowledgements)

(***************************************************************************)
(* The handshake.  The coordinator names the worker and announces peer 2;  *)
(* the coordinator and peer 2 send connection requests and responses, with *)
(* the right seed or a wrong one, on either interface, any number of       *)
(* times, and peer 2 also before it is announced.                          *)
(***************************************************************************)
ConnectionRequests(P) ==
    {PlainMessage(p, "ConnectionRequest",
                  [workerId |-> p, mySeed |-> p, yourSeed |-> 0,
                   addressNo |-> i]) : p \in P, i \in Ifaces}

HandshakeTcp ==
    {m \in HeyMessages \cup ConnectToMessages({2}) : Useful(m)}

HandshakeUdp ==
    {m \in ConnectionResponses({0, 2}, {mySeed, otherSeed}, {{0}})
            \cup ConnectionRequests({2}) :
        /\ ~InQueue(m)
        /\ m.opcode = "ConnectionRequest" => servicePackets = <<>>}

HandshakeNext ==
    \/ TcpReceive(HandshakeTcp, MaxBacklog)
    \/ UdpReceive(HandshakeUdp, MaxQueue)
    \/ HandleMessages
    \/ HandlePeers
    \/ HandleUdpSend(0)
    \/ HandleUdpSend(1)

HandshakeSpec == Init /\ [][HandshakeNext]_vars

(***************************************************************************)
(* The two sockets.  The sender of RetransmitSpec with the handshake       *)
(* packets of Hey still queued, under either configuration; peer 2 also    *)
(* sends connection requests, which are answered on the interface they     *)
(* name.                                                                   *)
(***************************************************************************)
SendInit ==
    \E c \in Configs, gen \in SeqsUpTo(Treelets, MaxRays) :
        IsState(MessageLoop(ConstructedState(c),
                            AssemblyScript({}, {0}, {1}, gen), <<>>))

SendUdp ==
    RetransmitUdp
        \cup {m \in ConnectionRequests({2}) :
                ~InQueue(m) /\ Len(servicePackets) < MaxService}

SendNext ==
    \/ HandleOutQueue(RetransmitSizes)
    \/ HandleUdpSend(0)
    \/ HandleUdpSend(1)
    \/ UdpReceive(SendUdp, MaxQueue)
    \/ HandleMessages
    \/ HandleRayAcknowledgements
    \/ Tick

SendSpec == SendInit /\ [][SendNext]_vars

(***************************************************************************)
(* The peer table.  The handshake of HandshakeSpec, where the coordinator  *)
(* also announces peer 2 again once the worker knows it, alone or in a     *)
(* MultipleConnect.                                                        *)
(***************************************************************************)
MultipleConnectMessages(P) ==
    {PlainMessage(0, "MultipleConnect",
                  [peers |-> <<m.payload, m.payload>>]) :
        m \in ConnectToMessages(P)}

PeerTcp ==
    {m \in ConnectToMessages({2}) \cup MultipleConnectMessages({2}) :
        ~InQueue(m) /\ 2 \in DOMAIN peers}

PeerNext ==
    \/ HandshakeNext
    \/ TcpReceive(PeerTcp, MaxBacklog)

PeerSpec == Init /\ [][PeerNext]_vars

(***************************************************************************)
(* Deferred requests.  Peers 2 and 3 ask for a connection on either        *)
(* interface, before or after the coordinator announces peer 2; it never   *)
(* announces peer 3.  Several requests may be queued in one pass.          *)
(***************************************************************************)
DeferUdp ==
    {m \in ConnectionRequests({2, 3}) :
        ~InQueue(m) /\ Len(servicePackets) < MaxService}

DeferNext ==
    \/ TcpReceive(HandshakeTcp, MaxBacklog + 1)
    \/ UdpReceive(DeferUdp, MaxBacklog)
    \/ HandleMessages
    \/ HandleUdpSend(0)
    \/ HandleUdpSend(1)

DeferSpec == Init /\ [][DeferNext]_vars

(***************************************************************************)
(* Termination.  The coordinator names the worker, assigns treelets, asks  *)
(* for rays and says Bye, at any time after Hey and with other messages    *)
(* queued before or behind it; the worker has no peers and traces nothing, *)
(* so the handshake packets of Hey and the rays stay in its queues.  The   *)
(* reactor runs the Messages action while messages are queued.             *)
(***************************************************************************)
ByeMessages == {PlainMessage(0, "Bye", <<>>)}

ByeTcp ==
    {m \in HeyMessages \cup GetObjectsMessages \cup GenerateRaysMessages
            \cup ByeMessages : Useful(m)}

ByeNext ==
    \/ TcpReceive(ByeTcp, MaxBacklog)
    \/ HandleMessages
    \/ HandleUdpSend(0)
    \/ HandleUdpSend(1)

ByeSpec == Init /\ [][ByeNext]_vars /\ WF_vars(HandleMessages)

(***************************************************************************)
(* The tracer.  The worker is named and holds treelet 0; peer 2 is         *)
(* announced and, in one of the two starting states, has answered the      *)
(* handshake as the holder of treelet 1.  The coordinator asks for camera  *)
(* rays and peer 2 sends rays for treelet 0 in any state a serialized ray  *)
(* can have, a ray with an empty toVisit and no hit among them.  At most   *)
(* MaxOut ray objects are ever created.                                    *)
(***************************************************************************)
TraceScript(known) ==
    <<PlainMessage(0, "Hey", [workerId |-> CHOOSE id \in HeyIds : TRUE]),
      PlainMessage(0, "ConnectTo",
                   [workerId |-> 2, address |-> <<Addr(2, 0), Addr(2, 1)>>])>>
    \o (IF known THEN Handshake(2, {1}) ELSE <<>>)
    \o <<PlainMessage(0, "GetObjects", [treelets |-> {0}])>>

TraceInit ==
    \E known \in BOOLEAN :
        IsState(DrainService(
            MessageLoop(ConstructedState(ReliableConfig),
                        TraceScript(known), <<>>)))

\* the path id of the rays peer 2 sends
PeerPath == MaxOut + 1

SentRays ==
    {PlainMessage(2, "SendRays",
                  [rays |-> <<[pathId |-> PeerPath, treelet |-> 0,
                               toVisitEmpty |-> e, hit |-> h,
                               isShadowRay |-> s,
                               Ld |-> IF s THEN 1 ELSE 0]>>]) :
        e \in BOOLEAN, h \in BOOLEAN, s \in BOOLEAN}

TraceTcp ==
    {m \in GenerateRaysMessages :
        ~InQueue(m) /\ Len(m.payload.rays) <= RayBudget(MaxOut)}

TraceUdp ==
    {m \in SentRays : Len(m.payload.rays) <= RayBudget(MaxOut)}

\* RayQueue, with at most max ray objects ever created
HandleRayQueueUpTo(max) ==
    /\ Running
    /\ Activated
    /\ rayQueue # <<>>
    /\ \E oracle \in Oracles(SubSeq(rayQueue, 1,
                                    IF Len(rayQueue) < MAX_RAYS
                                    THEN Len(rayQueue) ELSE MAX_RAYS),
                             RayBudget(max)) :
        Commit(handleRayQueue(W, oracle))

TraceNext ==
    \/ TcpReceive(TraceTcp, MaxQueue)
    \/ UdpReceive(TraceUdp, MaxQueue)
    \/ HandleMessages
    \/ HandleRayQueueUpTo(MaxOut)

TraceSpec == TraceInit /\ [][TraceNext]_vars

(***************************************************************************)
(* Rays from peers.  The tracer of TraceSpec, where peer 2 sends rays that *)
(* are about to enter treelet 0, which the worker holds, or treelet 1,     *)
(* which it does not.                                                      *)
(***************************************************************************)
PeerRays ==
    {PlainMessage(2, "SendRays",
                  [rays |-> <<[pathId |-> PeerPath, treelet |-> t,
                               toVisitEmpty |-> FALSE, hit |-> FALSE,
                               isShadowRay |-> FALSE, Ld |-> 0]>>]) :
        t \in Treelets}

PeerRaysUdp ==
    {m \in PeerRays : Len(m.payload.rays) <= RayBudget(MaxOut)}

PeerRaysNext ==
    \/ TcpReceive(TraceTcp, MaxQueue)
    \/ UdpReceive(PeerRaysUdp, MaxQueue)
    \/ HandleMessages
    \/ HandleRayQueueUpTo(MaxOut)

PeerRaysSpec == TraceInit /\ [][PeerRaysNext]_vars

(***************************************************************************)
(* Keep-alives.  The worker is named and peer 2 announced; the coordinator *)
(* and peer 2 complete the handshake at any time, before or between the    *)
(* ticks of the clock, and the peer timer fires while the service queue is *)
(* empty.                                                                  *)
(***************************************************************************)
KeepAliveScript(P) ==
    <<PlainMessage(0, "Hey", [workerId |-> CHOOSE id \in HeyIds : TRUE]),
      PlainMessage(0, "ConnectTo",
                   [workerId |-> 2, address |-> <<Addr(2, 0), Addr(2, 1)>>])>>
    \o (IF 0 \in P THEN Handshake(0, {1}) ELSE <<>>)
    \o (IF 2 \in P THEN Handshake(2, {1}) ELSE <<>>)

KeepAliveInit ==
    \E P \in SUBSET {0, 2} :
        IsState(DrainService(
            MessageLoop(ConstructedState(ReliableConfig),
                        KeepAliveScript(P), <<>>)))

KeepAliveUdp ==
    {m \in ConnectionResponses({0, 2}, {mySeed}, {{1}}) :
        ~InQueue(m) /\ peers[m.senderId].state = "Connecting"}

\* Peers, while no peer has been asked more than MaxTries times
PeersTimer ==
    /\ Running
    /\ Activated
    /\ DOMAIN peers # {}
    /\ servicePackets = <<>>
    /\ \A p \in DOMAIN peers :
        peers[p].state = "Connecting" => peers[p].tries < MaxTries
    /\ Commit(handlePeers(W))

KeepAliveNext ==
    \/ UdpReceive(KeepAliveUdp, MaxQueue)
    \/ HandleMessages
    \/ PeersTimer
    \/ HandleUdpSend(0)
    \/ HandleUdpSend(1)
    \/ Tick

KeepAliveSpec == KeepAliveInit /\ [][KeepAliveNext]_vars

(***************************************************************************)
(* The acknowledger.  The receiver of ReceiveSpec, where the network       *)
(* repeats the first reliable packet of peer 2, in its successive          *)
(* attempts, up to MaxDeliveries times between two activations of the      *)
(* acknowledgement timer; peer 3's first packet arrives as well.           *)
(***************************************************************************)
\* the first packet of peer p as the network delivers it next: the sender's
\* attempts arrive in turn
FirstDatagram(p) ==
    CHOOSE m \in RayDatagrams(p, 0) :
        m.attempt = Len(MapGet(toBeAcked, Addr(p, 0), <<>>)) % (MaxAttempt + 1)

AckUdp ==
    {m \in {FirstDatagram(2), FirstDatagram(3)} :
        /\ ackId < MaxAckId
        /\ servicePackets = <<>>
        /\ Len(MapGet(toBeAcked, Addr(m.senderId, 0), <<>>))
                < (IF m.senderId = 2 THEN MaxDeliveries ELSE 1)}

AckNext ==
    \/ UdpReceive(AckUdp, MaxBacklog)
    \/ HandleMessages
    \/ HandleRayAcknowledgements
    \/ HandleUdpSend(0)

AckSpec == ReceiveInit /\ [][AckNext]_vars

(***************************************************************************)
(* Both directions.  The sender of RetransmitSpec, to which peer 2 also    *)
(* sends its first reliable ray packet, at any attempt and any number of   *)
(* times: the worker receives acknowledgements for its packets and queues  *)
(* and sends acknowledgements of its own.                                  *)
(***************************************************************************)
ExchangeUdp ==
    RetransmitUdp
        \cup {m \in RayDatagrams(2, 0) :
                /\ ackId < MaxAckId
                /\ PendingAcks(toBeAcked, DOMAIN toBeAcked) < MaxBacklog
                /\ Len(servicePackets) < MaxService}

ExchangeNext ==
    \/ HandleOutQueue(RetransmitSizes)
    \/ HandleUdpSend(0)
    \/ UdpReceive(ExchangeUdp, MaxQueue)
    \/ HandleMessages
    \/ HandleRayAcknowledgements
    \/ Tick

ExchangeSpec == RetransmitInit /\ [][ExchangeNext]_vars

\* FinishedQueue
HandleFinishedQueue ==
    /\ Running
    /\ Activated
    /\ CASE config.finishedRayAction = "Discard" ->
                Len(finishedQueue) > DISCARD_THRESHOLD
         [] config.finishedRayAction = "SendBack" -> finishedQueue # <<>>
         [] OTHER -> FALSE
    /\ Commit(handleFinishedQueue(W))

(***************************************************************************)
(* Finished rays.  The tracer of TraceSpec without the rays of peer 2:     *)
(* what the worker finishes it sends back to the coordinator.              *)
(***************************************************************************)
FinishedNext ==
    \/ TcpReceive(TraceTcp, MaxQueue)
    \/ HandleMessages
    \/ HandleRayQueueUpTo(MaxOut)
    \/ HandleFinishedQueue

FinishedSpec == TraceInit /\ [][FinishedNext]_vars

(***************************************************************************)
(* Benchmark mode.  The worker is named, peer 2 is announced and has       *)
(* answered; the handshake packets of Hey are still queued.  The           *)
(* coordinator starts a benchmark toward peer 2, or toward peer 3, which   *)
(* the worker does not know, on either interface; both sockets are         *)
(* writable and datagrams arrive on both.                                  *)
(***************************************************************************)
BenchmarkScript ==
    <<PlainMessage(0, "Hey", [workerId |-> CHOOSE id \in HeyIds : TRUE]),
      PlainMessage(0, "ConnectTo",
                   [workerId |-> 2, address |-> <<Addr(2, 0), Addr(2, 1)>>])>>
    \o Handshake(2, {1})

BenchmarkInit ==
    IsState(MessageLoop(ConstructedState(ReliableConfig), BenchmarkScript, <<>>))

StartBenchmarkMessages ==
    {PlainMessage(0, "StartBenchmark",
                  [destination |-> d, duration |-> 1, rate |-> r,
                   addressNo |-> i]) :
        d \in {2, 3}, r \in {0, 1}, i \in Ifaces}

BenchmarkTcp ==
    {m \in StartBenchmarkMessages : benchmark.state = "Off" /\ ~InQueue(m)}

\* UdpSend and UdpSend2 as initBenchmark installs them
BenchmarkSend(iface) ==
    /\ Running
    /\ benchmark.state = "Running"
    /\ benchmark.sent[iface + 1] < MaxDatagrams
    /\ Commit(sendCallback(W, iface))

\* UdpReceive and UdpReceive2 as initBenchmark installs them
BenchmarkReceive(iface) ==
    /\ Running
    /\ benchmark.state = "Running"
    /\ benchmark.received[iface + 1] < MaxDatagrams
    /\ Commit(recvCallback(W, iface, PACKET_HEADER_LEN + BENCHMARK_PAYLOAD_LEN))

\* NetStats: checkpointTimer has expired
NetStats ==
    /\ Running
    /\ benchmark.state = "Running"
    /\ benchmark.checkpoint # NoNetStats
    /\ Commit(checkpointCallback(W))

\* benchmarkTimer has expired
BenchmarkTimer ==
    /\ Running
    /\ benchmark.state = "Running"
    /\ Commit(benchmarkTimerCallback(W))

BenchmarkNext ==
    \/ TcpReceive(BenchmarkTcp, MaxQueue)
    \/ HandleMessages
    \/ HandleUdpSend(0)
    \/ HandleUdpSend(1)
    \/ BenchmarkSend(0)
    \/ BenchmarkSend(1)
    \/ BenchmarkReceive(0)
    \/ BenchmarkReceive(1)
    \/ NetStats
    \/ BenchmarkTimer

BenchmarkSpec == BenchmarkInit /\ [][BenchmarkNext]_vars

(***************************************************************************)
(* Naming.  The coordinator may send Hey at any time and more than once,   *)
(* with either of two worker ids, and announces peer 2.                    *)
(***************************************************************************)
AnyHeyIds == HeyIds \cup {4}

HeyTcp ==
    {m \in {PlainMessage(0, "Hey", [workerId |-> id]) : id \in AnyHeyIds}
            \cup ConnectToMessages({2}) :
        /\ ~InQueue(m)
        /\ m.opcode = "ConnectTo" => workerId # None
        /\ Len(servicePackets) < MaxService}

\* the TCP callback, for whatever the coordinator sends
TcpReceiveAny(M, cap) ==
    /\ Running
    /\ Len(messageParser) < cap
    /\ \E m \in M : Commit(tcpReceive(W, m))

HeyNext ==
    \/ TcpReceiveAny(HeyTcp, MaxBacklog)
    \/ HandleMessages
    \/ HandleUdpSend(0)
    \/ HandleUdpSend(1)

HeySpec == Init /\ [][HeyNext]_vars

(***************************************************************************)
(* Two workers.  Workers 1 and 2 run the same program; the coordinator has *)
(* named each, answered its handshake and announced the other to it.  A    *)
(* datagram a worker sends to the other is handed to the other's socket or *)
(* lost.  Both workers draw the same seed, as srand(time(nullptr)) gives   *)
(* processes started within one second; no comparison involves the seeds   *)
(* of two different workers.  A peer timer fires again when the requests   *)
(* of its last firing and their answers have left the queues.              *)
(***************************************************************************)
PairScript(self, other) ==
    <<PlainMessage(0, "Hey", [workerId |-> self]),
      PlainMessage(0, "ConnectTo",
                   [workerId |-> other,
                    address |-> <<Addr(other, 0), Addr(other, 1)>>])>>
    \o Handshake(0, {})

PairStart(self, other) ==
    DrainService(MessageLoop(ConstructedState(ReliableConfig),
                             PairScript(self, other), <<>>))

PairInit ==
    /\ HoldsState(PairStart(1, 2))
    /\ peerWorker = PairStart(2, 1)
    /\ pluralized = None

\* the state of worker x, and the other worker's id
PairState(x) == IF x = 1 THEN W ELSE peerWorker

Other(x) == 3 - x

\* worker x is left in state r and the other worker in state o, each
\* computed once
PairCommit(x, r, o) ==
    \E r1 \in {r}, o1 \in {o} :
        /\ IF x = 1 THEN CommitLocal(r1) /\ peerWorker' = o1
           ELSE CommitLocal(o1) /\ peerWorker' = r1
        /\ pluralized' = pluralized

\* Worker::tries is written by handlePeers and read nowhere: counts beyond
\* MaxTries are not told apart
SaturateTries(w) ==
    [w EXCEPT !.peers =
        [p \in DOMAIN @ |->
            [@[p] EXCEPT !.tries = IF @ > MaxTries THEN MaxTries ELSE @]]]

\* a connection request of worker x, or an answer to one, is still queued
RoundOpen(x) ==
    LET w == PairState(x)
        o == PairState(Other(x))
    IN \/ \E i \in DOMAIN w.servicePackets :
             w.servicePackets[i].data.opcode = "ConnectionRequest"
       \/ \E i \in DOMAIN o.messageParser :
             o.messageParser[i].opcode = "ConnectionRequest"
       \/ \E i \in DOMAIN o.servicePackets :
             o.servicePackets[i].data.opcode = "ConnectionResponse"
       \/ \E i \in DOMAIN w.messageParser :
             w.messageParser[i].opcode = "ConnectionResponse"

\* Peers, of worker x
PairPeers(x) ==
    /\ ~RoundOpen(x)
    /\ \E w \in {PairState(x)}, o \in {PairState(Other(x))} :
          PairCommit(x, SaturateTries(handlePeers(w)), o)

\* Messages, of worker x
PairMessages(x) ==
    /\ (IF x = 1 THEN messageParser ELSE peerWorker.messageParser) # <<>>
    /\ \E w \in {PairState(x)}, o \in {PairState(Other(x))} :
          PairCommit(x, handleMessages(w), o)

\* UdpSend or UdpSend2 of worker x sends a datagram with opcode op to the
\* other worker, whose UdpReceive or UdpReceive2 takes it
PairDeliver(x, iface, op) ==
    \E w \in {PairState(x)}, o \in {PairState(Other(x))} :
        \E i \in {FirstService(w, iface)} :
            /\ i # 0
            /\ w.servicePackets[i].data.opcode = op
            /\ w.servicePackets[i].destination = Addr(Other(x), iface)
            /\ PairCommit(x, handleUdpSend(w, iface),
                          handleUdpReceive(o, Addr(x, iface),
                                           w.servicePackets[i].data))

\* UdpSend or UdpSend2 of worker x sends a datagram that the network loses
PairLose(x, iface) ==
    \E w \in {PairState(x)}, o \in {PairState(Other(x))} :
        /\ FirstService(w, iface) # 0
        /\ PairCommit(x, handleUdpSend(w, iface), o)

HandshakeOpcodes == {"ConnectionRequest", "ConnectionResponse"}

PairNext ==
    \E x \in {1, 2} :
        \/ PairPeers(x)
        \/ PairMessages(x)
        \/ \E iface \in Ifaces, op \in HandshakeOpcodes :
              PairDeliver(x, iface, op)
        \/ \E iface \in Ifaces : PairLose(x, iface)

\* the reactors run their actions; of the datagrams of one kind that a
\* worker keeps sending on an interface, the network delivers some
PairSpec ==
    /\ PairInit /\ [][PairNext]_vars
    /\ \A x \in {1, 2} :
          /\ WF_vars(PairPeers(x))
          /\ WF_vars(PairMessages(x))
          /\ \A iface \in Ifaces, op \in HandshakeOpcodes :
                SF_vars(PairDeliver(x, iface, op))

(***************************************************************************)
(* util.h: pluralize.  A std::string is the sequence of its characters;    *)
(* the function is called once with any word of up to MaxWordLen letters   *)
(* and any count up to MaxCount.                                           *)
(***************************************************************************)
MaxWordLen == 3

MaxCount == 3

Letters == {"y", "s"}

Words == {<<>>} \cup SeqsUpTo(Letters, MaxWordLen)

\* return word + (count == 1 ? "s" : "");
pluralize(word, count) == word \o (IF count = 1 THEN <<"s">> ELSE <<>>)

PluralizeInit ==
    /\ HoldsState(ConstructedState(ReliableConfig))
    /\ peerWorker = None
    /\ \E word \in Words, count \in 0..MaxCount :
          pluralized = [word |-> word, count |-> count, result |-> None,
                        returned |-> FALSE]

\* the call returns
Pluralize ==
    /\ pluralized # None
    /\ ~pluralized.returned
    /\ pluralized' = [pluralized EXCEPT
                         !.result = pluralize(pluralized.word, pluralized.count),
                         !.returned = TRUE]
    /\ CommitLocal(W)
    /\ peerWorker' = peerWorker

PluralizeSpec == PluralizeInit /\ [][Pluralize]_vars

(***************************************************************************)
(* Properties                                                              *)
(***************************************************************************)

\* C1: at every handler boundary outQueueSize is the sum of the lengths of
\* all outQueue[t] and pendingQueueSize the sum of the lengths of all
\* pendingQueue[t].
C1_CountersMatchQueues ==
    /\ outQueueSize = SumLen(outQueue, DOMAIN outQueue)
    /\ pendingQueueSize = SumLen(pendingQueue, DOMAIN pendingQueue)

\* packets have been assembled (rays were popped from an out queue) and
\* rays wait in an out queue again
C1_Witness ==
    /\ rayPackets # <<>>
    /\ outQueueSize > 0
    /\ C1_CountersMatchQueues

\* C8: for every treelet t the worker owns, neither outQueue[t] nor
\* pendingQueue[t] holds a ray whose current treelet is t.
C8_NoOwnedTreeletQueued ==
    \A t \in treeletIds :
        /\ \A i \in 1..Len(outQueue[t]) : outQueue[t][i].treelet # t
        /\ \A i \in 1..Len(pendingQueue[t]) : pendingQueue[t][i].treelet # t

\* the ids of the rays serialized into the packets of a queue of packets
RECURSIVE PacketRayIds(_)
PacketRayIds(packets) ==
    IF packets = <<>> THEN <<>>
    ELSE Ids(Head(packets).payload) \o PacketRayIds(Tail(packets))

\* every place that holds a ray, as one sequence of ray ids
HeldIds ==
    Ids(rayQueue) \o Ids(Flatten(outQueue, DOMAIN outQueue))
        \o Ids(Flatten(pendingQueue, DOMAIN pendingQueue))
        \o Ids(finishedQueue) \o PacketRayIds(rayPackets)
        \o PacketRayIds([i \in 1..Len(outstandingRayPackets) |->
                            outstandingRayPackets[i][2]])

NoDuplicates(s) == \A i, j \in 1..Len(s) : s[i] = s[j] => i = j

C10_OneOwner == NoDuplicates(HeldIds)

\* the rays one handleRayQueue activation may hand to Shade, which consumes
\* them
Shadeable ==
    {rayQueue[i].id : i \in {j \in 1..Len(rayQueue) :
                                /\ j <= MAX_RAYS
                                /\ rayQueue[j].toVisitEmpty
                                /\ rayQueue[j].hit}}

\* C10: at every handler boundary no ray is in two queues or at two places
\* of one queue (a ray serialized into a packet counts as held by the
\* packet), and a handler only moves rays: a ray held before the handler is
\* still held after it, unless Shade consumed it, and a ray held after it
\* was held before or is a new object.
C10_RaysHaveOneOwner ==
    [][/\ C10_OneOwner'
       /\ Range(HeldIds) \ Range(HeldIds') \subseteq Shadeable
       /\ \A id \in Range(HeldIds') \ Range(HeldIds) : id >= nextRayId]_vars

\* one ray sits serialized in a packet while another one is finished
C10_Witness ==
    /\ rayPackets # <<>>
    /\ finishedQueue # <<>>
    /\ C10_OneOwner


\* the packets the step has constructed
NewPackets == SubSeq(constructed', Len(constructed) + 1, Len(constructed'))

\* the ray ids in the payloads of the packets of ps built for treelet t, in
\* construction order
RECURSIVE PackedIds(_, _)
PackedIds(ps, t) ==
    IF ps = <<>> THEN <<>>
    ELSE (IF Head(ps).targetTreelet = t THEN Ids(Head(ps).payload) ELSE <<>>)
            \o PackedIds(Tail(ps), t)

\* sequence numbers grow along ps for every destination address
IncreasingPerDestination(ps) ==
    \A i, j \in DOMAIN ps :
        i < j /\ ps[i].destination = ps[j].destination
            => ps[i].sequenceNumber < ps[j].sequenceNumber

\* C4: for each destination address the sequence numbers of the constructed
\* ray packets are strictly increasing in construction order, and no step
\* decreases sequenceNumbers[addr].
C4_SeqNosIncrease ==
    [][/\ IncreasingPerDestination(constructed')
       /\ \A addr \in PeerAddrs :
              PeerSeqNo(W, addr)' >= PeerSeqNo(W, addr)]_vars

\* one address has a packet and a later one whose first ray would have fitted
\* the earlier, so that two activations have constructed packets for it, and
\* another address has got packets too
C4_Witness ==
    /\ \E i, j, k \in DOMAIN constructed :
          /\ i < j
          /\ constructed[i].destination = constructed[j].destination
          /\ constructed[k].destination # constructed[i].destination
    /\ \E i, j \in DOMAIN constructed :
          /\ i < j
          /\ constructed[i].destination = constructed[j].destination
          /\ constructed[i].targetTreelet = constructed[j].targetTreelet
          /\ constructed[j].payload # <<>>
          /\ PACKET_HEADER_LEN + constructed[i].payloadLen + RECORD_PREFIX_LEN
                + constructed[j].payload[1].len <= UDP_MTU_BYTES
    /\ IncreasingPerDestination(constructed)

\* C6: every ray packet constructed by handleOutQueue has a payload of at most
\* UDP_MTU_BYTES bytes.
C6_PayloadWithinMtu ==
    \A i \in DOMAIN constructed : constructed[i].payloadLen <= UDP_MTU_BYTES

\* C7: an activation of handleOutQueue empties every outQueue[t]; the rays
\* that were in outQueue[t] are, in their FIFO order, the payloads of the
\* packets it constructs for t, which all go to one peer, and the ray that
\* opens a further packet for t is one that did not fit the packet before.
C7_RaysPackedInOrder ==
    [][constructed' # constructed =>
        /\ \A t \in Treelets : outQueue'[t] = <<>>
        /\ \A t \in Treelets : PackedIds(NewPackets, t) = Ids(outQueue[t])
        /\ \A i, j \in DOMAIN NewPackets :
              NewPackets[i].targetTreelet = NewPackets[j].targetTreelet
                  => NewPackets[i].destinationId = NewPackets[j].destinationId
        /\ \A t \in Treelets : NoDuplicates(PackedIds(NewPackets, t))
        /\ \A i \in DOMAIN NewPackets :
              (i + 1 \in DOMAIN NewPackets
                  /\ NewPackets[i].targetTreelet = NewPackets[i + 1].targetTreelet)
                  /\ NewPackets[i + 1].payload # <<>>
              => PACKET_HEADER_LEN + NewPackets[i].payloadLen
                    + NewPackets[i + 1].payload[1].len + RECORD_PREFIX_LEN
                        > UDP_MTU_BYTES]_vars

\* a ray that fits the first packet for its treelet exactly is followed by one
\* that would overflow it by one byte and opens the next packet
C7_Witness ==
    \E i \in DOMAIN constructed : i + 1 \in DOMAIN constructed /\
        LET p == constructed[i]
            q == constructed[i + 1]
        IN /\ p.targetTreelet = q.targetTreelet
           /\ p.destination = q.destination
           /\ p.sequenceNumber + 1 = q.sequenceNumber
           /\ p.rayCount = 1 /\ q.rayCount >= 1
           /\ PACKET_HEADER_LEN + p.payloadLen + q.payload[1].len
                  + RECORD_PREFIX_LEN = UDP_MTU_BYTES + 1
           /\ outQueue[p.targetTreelet] = <<>>

\* the messages of a queue without their read marks
Unmarked(messages) ==
    [i \in 1..Len(messages) |-> [messages[i] EXCEPT !.read = FALSE]]

\* the path ids of the rays in a queue
PathIds(q) == [i \in 1..Len(q) |-> q[i].pathId]

\* C2: receivedPacketSeqNos[src] only grows, at most one reliable message with
\* a given (src, seqNo) is forwarded to the message queue, and the ray of one
\* reliable SendRays packet enters rayQueue at most once.
C2_ForwardedAtMostOnce ==
    [][/\ \A src \in DOMAIN receivedPacketSeqNos :
              /\ src \in DOMAIN receivedPacketSeqNos'
              /\ receivedPacketSeqNos[src] \subseteq receivedPacketSeqNos'[src]
       /\ \A key \in DOMAIN forwarded' : forwarded'[key] <= 1
       /\ NoDuplicates(PathIds(rayQueue'))]_vars

\* a packet has arrived again after its ray entered rayQueue, and a packet
\* with a higher sequence number arrived before one with a lower
C2_Witness ==
    \E src \in DOMAIN toBeAcked, k \in DOMAIN rayQueue :
        /\ <<src, 0>> \in DOMAIN forwarded
        /\ <<src, 1>> \in DOMAIN forwarded
        /\ rayQueue[k].pathId = OriginPath(src[1], 0)
        /\ \E j \in DOMAIN rayQueue :
              j < k /\ rayQueue[j].pathId = OriginPath(src[1], 1)
        /\ \E i \in DOMAIN toBeAcked[src] : toBeAcked[src][i][1] = 0
        /\ \A key \in DOMAIN forwarded : forwarded[key] = 1

\* C3: receiving a reliable message whose (source, seqNo) was already received
\* leaves the message queue and the ray queues as they were and appends one
\* (seqNo, tracked, attempt) entry to toBeAcked[source].
C3_DuplicateOnlyAcked ==
    \A m \in SentDatagrams :
        LET source == Addr(m.senderId, 0)
            after == handleUdpReceive(W, source, m)
        IN AlreadyReceived(W, source, m.sequenceNumber) =>
            /\ Unmarked(after.messageParser) = Unmarked(messageParser)
            /\ after.rayQueue = rayQueue
            /\ after.outQueue = outQueue
            /\ after.pendingQueue = pendingQueue
            /\ after.finishedQueue = finishedQueue
            /\ after.toBeAcked[source] =
                  Append(MapGet(toBeAcked, source, <<>>),
                         <<m.sequenceNumber, m.tracked, m.attempt>>)
            /\ \A src \in DOMAIN toBeAcked \ {source} :
                  after.toBeAcked[src] = toBeAcked[src]

\* one source has two pending entries for one sequence number, whose message
\* was forwarded once, while an unprocessed message is still queued
C3_Witness ==
    \E src \in DOMAIN toBeAcked :
        /\ \E i, j \in DOMAIN toBeAcked[src] :
              i < j /\ toBeAcked[src][i][1] = toBeAcked[src][j][1]
                    /\ <<src, toBeAcked[src][i][1]>> \in DOMAIN forwarded
                    /\ forwarded[<<src, toBeAcked[src][i][1]>>] = 1
        /\ messageParser # <<>>

\* the outstanding packets the step has taken from the front of the queue
Popped ==
    SubSeq(outstandingRayPackets, 1,
           Len(outstandingRayPackets) - Len(outstandingRayPackets'))

\* the packets of entries whose sequence number acked does not hold for their
\* destination
Unacknowledged(entries, acked) ==
    LET Missing(e) ==
            e[2].sequenceNumber \notin MapGet(acked, e[2].destination, {})
        kept == SelectSeq(entries, Missing)
    IN [i \in 1..Len(kept) |-> kept[i][2]]

\* C5: the packets handleRayAcknowledgements pushes back onto rayPackets are
\* the expired outstanding packets that are not acknowledged, each with the
\* destination and sequence number it had, an attempt count one higher and the
\* retransmission flag set, and the step allocates no sequence number.
C5_RetransmissionKeepsSeqNo ==
    [][Len(outstandingRayPackets') < Len(outstandingRayPackets) =>
        LET old == Unacknowledged(Popped, receivedAcks)
        IN /\ Len(rayPackets') = Len(rayPackets) + Len(old)
           /\ SubSeq(rayPackets', 1, Len(rayPackets)) = rayPackets
           /\ \A i \in DOMAIN old :
                LET new == rayPackets'[Len(rayPackets) + i]
                IN /\ new.destination = old[i].destination
                   /\ new.destinationId = old[i].destinationId
                   /\ new.sequenceNumber = old[i].sequenceNumber
                   /\ new.payload = old[i].payload
                   /\ new.attempt = old[i].attempt + 1
                   /\ new.retransmission
           /\ sequenceNumbers' = sequenceNumbers
           /\ constructed' = constructed]_vars

\* a packet waits to be sent again, after one of two packets sent was
\* acknowledged
C5_Witness ==
    /\ \E i \in DOMAIN rayPackets :
          /\ rayPackets[i].retransmission
          /\ rayPackets[i].attempt = 2
          /\ PeerSeqNo(W, rayPackets[i].destination)
                > rayPackets[i].sequenceNumber
    /\ \E dest \in DOMAIN receivedAcks : receivedAcks[dest] # {}
    /\ Len(constructed) = 2

\* a response of peer p that names this worker's seed, for interface i
MatchingResponse(p, i) ==
    [workerId |-> p, mySeed |-> p, yourSeed |-> mySeed, addressNo |-> i,
     treeletIds |-> {0}]

\* C9: a peer is Connected exactly when connected[0] and connected[1] are both
\* true, and one more matching ConnectionResponse for the one interface that
\* has answered leaves the peer in Connecting.
C9_ConnectedNeedsBothInterfaces ==
    \A p \in DOMAIN peers :
        /\ peers[p].state = "Connected"
              <=> (peers[p].connected[1] /\ peers[p].connected[2])
        /\ \A i \in Ifaces :
              (peers[p].connected[i + 1] /\ ~peers[p].connected[2 - i]) =>
                LET after == ProcessConnectionResponse(W, MatchingResponse(p, i))
                IN /\ after.peers[p].state = "Connecting"
                   /\ after.peers[p].connected = peers[p].connected

\* the coordinator has answered on both interfaces and is Connected, while
\* peer 2 has answered on the second interface only and a further response
\* for that interface has arrived
C9_Witness ==
    /\ 0 \in DOMAIN peers /\ peers[0].state = "Connected"
    /\ 2 \in DOMAIN peers /\ peers[2].state = "Connecting"
    /\ peers[2].connected = <<FALSE, TRUE>>
    /\ peers[2].seed = 2
    /\ \E k \in DOMAIN messageParser :
          /\ messageParser[k].opcode = "ConnectionResponse"
          /\ messageParser[k].payload = MatchingResponse(2, 1)

\* the rays waiting in rayQueue, outQueue and pendingQueue
Waiting ==
    rayQueue \o Flatten(outQueue, DOMAIN outQueue)
        \o Flatten(pendingQueue, DOMAIN pendingQueue)

\* ray id was created by generateRays (its path id is its own id) and waits
CameraRayWaits(id) ==
    \E i \in DOMAIN Waiting : Waiting[i].id = id /\ Waiting[i].pathId = id

\* how often x occurs in the sequence s
Occurrences(s, x) == Cardinality({i \in DOMAIN s : s[i] = x})

\* ray id is in finishedQueue once and in no packet, or in one packet once and
\* not in finishedQueue
FinishedOrSentOnce(id) ==
    Occurrences(Ids(finishedQueue), id)
        + Occurrences(PacketRayIds(constructed), id) = 1

\* C11 as stated: every ray created by generateRays eventually is in
\* finishedQueue exactly once or serialized into a ray packet exactly once.
C11_EveryRayFinishedOrSent ==
    \A id \in 1..MaxRays : [](CameraRayWaits(id) => <>FinishedOrSentOnce(id))

\* C11: a ray created by generateRays stays in the queues until it is placed
\* in finishedQueue, serialized into one packet, or handed to Shade, which
\* consumes it; it is never finished or serialized twice, and once finished or
\* serialized it stays so.
C11_RayLeavesOnlyFinishedSentOrShaded ==
    [][\A id \in 1..MaxRays :
        /\ Occurrences(Ids(finishedQueue'), id)
              + Occurrences(PacketRayIds(constructed'), id) <= 1
        /\ CameraRayWaits(id) =>
              \/ CameraRayWaits(id)' /\ ~FinishedOrSentOnce(id)'
              \/ ~CameraRayWaits(id)' /\ FinishedOrSentOnce(id)'
              \/ /\ id \in Shadeable
                 /\ ~CameraRayWaits(id)'
                 /\ ~FinishedOrSentOnce(id)'
        /\ FinishedOrSentOnce(id) => FinishedOrSentOnce(id)']_vars

\* the first camera ray was shaded and is gone, the second is finished or
\* serialized
C11_Witness ==
    /\ nextRayId > 2
    /\ ~CameraRayWaits(1) /\ ~FinishedOrSentOnce(1)
    /\ 1 \notin Range(HeldIds)
    /\ FinishedOrSentOnce(2)
    /\ \E i \in DOMAIN finishedQueue \cup DOMAIN constructed :
          \/ i \in DOMAIN finishedQueue /\ finishedQueue[i].pathId = 2
                /\ finishedQueue[i].id = 2
          \/ i \in DOMAIN constructed /\ 2 \in Range(Ids(constructed[i].payload))

(***************************************************************************)
(* C12: outstanding packets and acknowledgements                           *)
(***************************************************************************)
\* an entry of outstandingRayPackets holds the packet with sequence number s
\* for address dest
Outstanding(dest, s) ==
    \E i \in DOMAIN outstandingRayPackets :
        /\ outstandingRayPackets[i][2].destination = dest
        /\ outstandingRayPackets[i][2].sequenceNumber = s

\* thisReceivedAcks.contains(s) for address dest
Acked(dest, s) == s \in MapGet(receivedAcks, dest, {})

\* the number of entries of outstandingRayPackets and of rayPackets that hold
\* the packet with sequence number s for address dest
Copies(dest, s) ==
    Cardinality({i \in DOMAIN outstandingRayPackets :
                    /\ outstandingRayPackets[i][2].destination = dest
                    /\ outstandingRayPackets[i][2].sequenceNumber = s})
    + Cardinality({i \in DOMAIN rayPackets :
                    /\ rayPackets[i].destination = dest
                    /\ rayPackets[i].sequenceNumber = s})

\* C12 as stated: once the acknowledgement of sequence number s has been
\* received from a peer, no entry of outstandingRayPackets holds the packet
\* with that sequence number for that peer.
C12_AckedNotOutstanding ==
    \A p \in PeerIds, s \in 0..(MaxSeqNo + 1) :
        Acked(Addr(p, 0), s) => ~Outstanding(Addr(p, 0), s)

\* C12: sending a reliable ray packet appends one entry for it, with the
\* deadline now + PACKET_TIMEOUT, and a packet never has two entries.
\* Receiving an acknowledgement leaves outstandingRayPackets as it is: entries
\* leave it only from the front, in handleRayAcknowledgements, once their
\* deadline has passed, and an entry that was acknowledged by then is dropped
\* and not pushed back onto rayPackets.
C12_AckedEntryDroppedAtDeadline ==
    [][/\ \A p \in PeerIds, s \in 0..(MaxSeqNo + 1) :
            Copies(Addr(p, 0), s) <= 1
       /\ \/ outstandingRayPackets' = outstandingRayPackets
          \/ /\ rayPackets # <<>>
             /\ Head(rayPackets).reliable
             /\ rayPackets' = Tail(rayPackets)
             /\ outstandingRayPackets' =
                   Append(outstandingRayPackets,
                          <<now + PACKET_TIMEOUT, Head(rayPackets)>>)
             /\ receivedAcks' = receivedAcks
          \/ /\ Len(outstandingRayPackets') < Len(outstandingRayPackets)
             /\ outstandingRayPackets' =
                   SubSeq(outstandingRayPackets, Len(Popped) + 1,
                          Len(outstandingRayPackets))
             /\ \A i \in DOMAIN Popped :
                   LET packet == Popped[i][2]
                   IN /\ Popped[i][1] <= now
                      /\ Acked(packet.destination, packet.sequenceNumber)
                            => \A j \in DOMAIN rayPackets' :
                                  \/ rayPackets'[j].destination
                                        # packet.destination
                                  \/ rayPackets'[j].sequenceNumber
                                        # packet.sequenceNumber]_vars

\* a packet was sent and acknowledged, and its entry has been dropped after
\* the deadline, while another packet is still outstanding
C12_Witness ==
    /\ \E i \in DOMAIN constructed :
          LET packet == constructed[i]
          IN /\ packet.reliable
             /\ Acked(packet.destination, packet.sequenceNumber)
             /\ Copies(packet.destination, packet.sequenceNumber) = 0
    /\ outstandingRayPackets # <<>>
    /\ now >= PACKET_TIMEOUT

(***************************************************************************)
(* C13: a connection response and the pending rays                         *)
(***************************************************************************)
\* the step is handleMessages with one queued message, a ConnectionResponse
\* of the known peer p that names this worker's seed and lists treelet t
ResponseProcessed(p, t) ==
    /\ Len(messageParser) = 1
    /\ messageParser' = <<>>
    /\ messageParser[1].opcode = "ConnectionResponse"
    /\ messageParser[1].payload.workerId = p
    /\ p \in DOMAIN peers
    /\ messageParser[1].payload.yourSeed = mySeed
    /\ t \in messageParser[1].payload.treeletIds

\* the response completes the handshake: p is not Connected and has already
\* answered on the other interface
CompletesHandshake(p) ==
    /\ peers[p].state # "Connected"
    /\ peers[p].connected[2 - messageParser[1].payload.addressNo]

\* the step moves the pending rays of t behind the outbound rays of t and
\* records p as a holder of t
Promoted(p, t) ==
    /\ pendingQueue'[t] = <<>>
    /\ outQueue'[t] = outQueue[t] \o pendingQueue[t]
    /\ pendingQueueSize' = pendingQueueSize - Len(pendingQueue[t])
    /\ outQueueSize' = outQueueSize + Len(pendingQueue[t])
    /\ t \in DOMAIN treeletToWorker'
    /\ \E i \in DOMAIN treeletToWorker'[t] : treeletToWorker'[t][i] = p
    /\ t \notin neededTreelets'
    /\ t \notin requestedTreelets'

\* C13 as stated: processing a ConnectionResponse of a known peer that names
\* this worker's seed and lists treelet t promotes the pending rays of t.
C13_ResponsePromotes ==
    [][\A p \in PeerIds, t \in Treelets :
          ResponseProcessed(p, t) => Promoted(p, t)]_vars

\* C13: such a response promotes the pending rays of t when it completes the
\* handshake (the peer is not Connected yet and has answered on the other
\* interface).  Otherwise the queues, the counters, treeletToWorker and the
\* needed and requested treelets are as they were.
C13_ConnectingResponsePromotes ==
    [][\A p \in PeerIds, t \in Treelets :
          ResponseProcessed(p, t) =>
              IF CompletesHandshake(p)
              THEN /\ Promoted(p, t)
                   /\ peers'[p].state = "Connected"
                   /\ t \in peers'[p].treelets
              ELSE /\ pendingQueue' = pendingQueue
                   /\ outQueue' = outQueue
                   /\ pendingQueueSize' = pendingQueueSize
                   /\ outQueueSize' = outQueueSize
                   /\ treeletToWorker' = treeletToWorker
                   /\ neededTreelets' = neededTreelets
                   /\ requestedTreelets' = requestedTreelets]_vars

\* the response that completes the handshake with peer 2 is queued while a
\* ray waits for a treelet it lists and another ray is already outbound for
\* another treelet
C13_Witness ==
    /\ Len(messageParser) = 1
    /\ messageParser[1].opcode = "ConnectionResponse"
    /\ 2 \in DOMAIN peers
    /\ messageParser[1].payload.workerId = 2
    /\ CompletesHandshake(2)
    /\ \E t \in messageParser[1].payload.treeletIds :
          /\ pendingQueue[t] # <<>>
          /\ t \in neededTreelets
    /\ pendingQueueSize > 0

(***************************************************************************)
(* C14, C15: what one activation of handleUdpSend sends                    *)
(***************************************************************************)
\* the predicate of UdpSend (interface 0) and of UdpSend2 (interface 1)
CanSend(iface) ==
    /\ Running
    /\ IF iface = 0 THEN servicePackets # <<>> \/ rayPackets # <<>>
       ELSE servicePackets # <<>>

\* a service packet for the interface is queued
ServiceQueued(iface) ==
    \E j \in DOMAIN servicePackets : servicePackets[j].iface = iface

\* the state w2 differs from the current one by the service packet at
\* position i having been sent
ServiceSent(w2, i) ==
    /\ w2.servicePackets = RemoveAt(servicePackets, i)
    /\ w2.rayPackets = rayPackets
    /\ w2.outstandingRayPackets = outstandingRayPackets

\* the state w2 differs from the current one by the front ray packet having
\* been sent
RaySent(w2) ==
    /\ rayPackets # <<>>
    /\ w2.rayPackets = Tail(rayPackets)
    /\ w2.servicePackets = servicePackets

\* the state w2 differs from the current one by no datagram
NothingSent(w2) ==
    /\ w2.servicePackets = servicePackets
    /\ w2.rayPackets = rayPackets
    /\ w2.outstandingRayPackets = outstandingRayPackets

\* C14: an activation of handleUdpSend sends one datagram or none.  When a
\* service packet for its interface is queued, it sends the first such
\* packet of the queue and no ray packet; an activation for interface 0 sends
\* the front ray packet only when no service packet for interface 0 is queued.
C14_OneDatagramServiceFirst ==
    \A iface \in Ifaces :
        CanSend(iface) =>
            LET w2 == handleUdpSend(W, iface)
            IN IF ServiceQueued(iface)
               THEN \E i \in DOMAIN servicePackets :
                       /\ servicePackets[i].iface = iface
                       /\ \A j \in 1..(i - 1) : servicePackets[j].iface # iface
                       /\ ServiceSent(w2, i)
               ELSE \/ NothingSent(w2)
                    \/ iface = 0 /\ RaySent(w2)

\* a ray packet and a service packet for interface 0 wait to be sent, behind
\* a service packet for interface 1, after a ray packet has been sent
C14_Witness ==
    /\ rayPackets # <<>>
    /\ Len(servicePackets) = 2
    /\ servicePackets[1].iface = 1
    /\ servicePackets[2].iface = 0
    /\ Len(constructed) > Len(rayPackets)
    /\ CanSend(0)

\* C15: an activation of handleUdpSend for interface 1 sends no ray packet:
\* it sends the first queued service packet whose iface is 1, or, when there
\* is none, nothing, and then servicePackets, rayPackets and
\* outstandingRayPackets are as they were.
C15_NoRaysOnInterface1 ==
    CanSend(1) =>
        LET w2 == handleUdpSend(W, 1)
        IN /\ w2.rayPackets = rayPackets
           /\ w2.outstandingRayPackets = outstandingRayPackets
           /\ \/ \E i \in DOMAIN servicePackets :
                    servicePackets[i].iface = 1 /\ ServiceSent(w2, i)
              \/ ~ServiceQueued(1) /\ NothingSent(w2)

\* UdpSend2 is enabled by a service packet for interface 0 alone, while a ray
\* packet waits
C15_Witness ==
    /\ CanSend(1)
    /\ ~ServiceQueued(1)
    /\ ServiceQueued(0)
    /\ rayPackets # <<>>

(***************************************************************************)
(* C16: what enables a retransmission                                      *)
(***************************************************************************)
\* the step pushes the packet of an entry it has popped back onto rayPackets
Retransmitted(entry) ==
    \E j \in (Len(rayPackets) + 1)..Len(rayPackets') :
        /\ rayPackets'[j].retransmission
        /\ rayPackets'[j].destination = entry[2].destination
        /\ rayPackets'[j].sequenceNumber = entry[2].sequenceNumber

\* C16: handleRayAcknowledgements pushes an expired outstanding packet back
\* onto rayPackets only if an acknowledgement has been received from the
\* packet's own destination before.
C16_RetransmitOnlyAfterOwnAck ==
    [][\A i \in DOMAIN Popped :
          Retransmitted(Popped[i]) =>
              MapGet(receivedAcks, Popped[i][2].destination, {}) # {}]_vars

(***************************************************************************)
(* C17: where a ray packet is kept                                         *)
(***************************************************************************)
\* C17: a reliable ray packet that was built is in exactly one of rayPackets
\* (not sent yet, or queued again) and outstandingRayPackets (sent), or it is
\* in neither and its sequence number is in receivedAcks of its destination;
\* a packet that is not reliable is never in outstandingRayPackets.
C17_SentPacketAccountedFor ==
    /\ \A i \in DOMAIN constructed :
          LET packet == constructed[i]
              copies == Copies(packet.destination, packet.sequenceNumber)
          IN IF packet.reliable
             THEN \/ copies = 1
                  \/ /\ copies = 0
                     /\ Acked(packet.destination, packet.sequenceNumber)
             ELSE ~Outstanding(packet.destination, packet.sequenceNumber)
    /\ \A i \in DOMAIN outstandingRayPackets :
          outstandingRayPackets[i][2].reliable

\* of two reliable packets sent, one was acknowledged and dropped and the
\* other was queued again and sent again
C17_Witness ==
    /\ Len(constructed) = 2
    /\ \E i, j \in DOMAIN constructed :
          /\ constructed[i].reliable
          /\ Copies(constructed[i].destination,
                    constructed[i].sequenceNumber) = 0
          /\ \E k \in DOMAIN outstandingRayPackets :
                /\ outstandingRayPackets[k][2].destination
                      = constructed[j].destination
                /\ outstandingRayPackets[k][2].sequenceNumber
                      = constructed[j].sequenceNumber
                /\ outstandingRayPackets[k][2].retransmission

(***************************************************************************)
(* C18: the peer table                                                     *)
(***************************************************************************)
\* the step keeps peer p, the interfaces that have answered and the state
\* Connected
PeerKept(p) ==
    /\ p \in DOMAIN peers'
    /\ peers'[p].id = peers[p].id
    /\ \A i \in 1..2 : peers[p].connected[i] => peers'[p].connected[i]
    /\ peers[p].state = "Connected" => peers'[p].state = "Connected"

\* C18: no step removes a peer from the peer table, clears a connected flag
\* or takes a peer from Connected back to Connecting, and a peer is Connected
\* exactly when both its interfaces have answered.
C18_PeerStateMonotone ==
    [][/\ \A p \in DOMAIN peers : PeerKept(p)
       /\ \A p \in DOMAIN peers' :
            peers'[p].state = "Connected"
                <=> (peers'[p].connected[1] /\ peers'[p].connected[2])]_vars

\* peer 2 is Connected, connection requests have been sent to the peers, and
\* the coordinator's announcement of peer 2 is queued again, next to a
\* response of peer 2 that names another seed
C18_Witness ==
    /\ 2 \in DOMAIN peers
    /\ peers[2].state = "Connected"
    /\ peers[0].tries > 0
    /\ \E i \in DOMAIN messageParser :
          /\ messageParser[i].opcode \in {"ConnectTo", "MultipleConnect"}
    /\ \E i \in DOMAIN messageParser :
          /\ messageParser[i].opcode = "ConnectionResponse"
          /\ messageParser[i].payload.workerId = 2

(***************************************************************************)
(* C19: connection requests of unknown workers                             *)
(***************************************************************************)
\* the messages of s at the positions in S, in order
SubSeqAt(s, S) ==
    LET F[i \in 0..Len(s)] ==
            IF i = 0 THEN <<>>
            ELSE IF i \in S THEN Append(F[i - 1], s[i]) ELSE F[i - 1]
    IN F[Len(s)]

\* the message at position j of the queue adds worker p to the peer table
Announces(j, p) ==
    LET m == messageParser[j]
    IN \/ m.opcode = "Hey" /\ p = 0
       \/ m.opcode = "ConnectTo" /\ m.payload.workerId = p
       \/ /\ m.opcode = "MultipleConnect"
          /\ \E k \in DOMAIN m.payload.peers : m.payload.peers[k].workerId = p

\* worker p is in the peer table when the message at position i is processed
KnownAt(i, p) ==
    \/ p \in DOMAIN peers
    \/ \E j \in 1..(i - 1) : Announces(j, p)

Requests ==
    {i \in DOMAIN messageParser :
        messageParser[i].opcode = "ConnectionRequest"}

DeferredAt == {i \in Requests : ~KnownAt(i, messageParser[i].payload.workerId)}

\* the service packets the step has put at the front of the queue that carry
\* a ConnectionResponse, the one queued last coming first
NewResponses ==
    LET new == SubSeq(servicePackets', 1,
                      Len(servicePackets') - Len(servicePackets))
        IsResponse(packet) == packet.data.opcode = "ConnectionResponse"
    IN SelectSeq(new, IsResponse)

\* the packet answers the request on the interface the request names
Answers(packet, request) ==
    /\ packet.iface = request.payload.addressNo
    /\ packet.destinationId = request.payload.workerId
    /\ packet.destination
          = Addr(request.payload.workerId, request.payload.addressNo)
    /\ packet.data.payload.addressNo = request.payload.addressNo
    /\ packet.data.payload.workerId = workerId'[1]

\* C19: a pass of handleMessages that is done with some message leaves in
\* messageParser exactly the connection requests whose sender was not in the
\* peer table when they were processed, in the order they had, and queues
\* one ConnectionResponse for every other connection request, on the
\* interface the request names.  A request deferred in one pass is therefore
\* answered by the first pass that finds its sender announced.
C19_UnknownRequestDeferred ==
    [][Len(messageParser') < Len(messageParser) =>
        LET answered == SubSeqAt(messageParser, Requests \ DeferredAt)
        IN /\ messageParser' = SubSeqAt(messageParser, DeferredAt)
           /\ Len(servicePackets') >= Len(servicePackets)
           /\ SubSeq(servicePackets',
                     Len(servicePackets') - Len(servicePackets) + 1,
                     Len(servicePackets')) = servicePackets
           /\ Len(NewResponses) = Len(answered)
           /\ \A k \in DOMAIN answered :
                Answers(NewResponses[Len(answered) + 1 - k], answered[k])]_vars

\* a request of peer 3, never announced, and a request of peer 2 were
\* deferred; the coordinator's announcement of peer 2 is queued behind them
C19_Witness ==
    /\ Len(messageParser) = 3
    /\ messageParser[1].opcode = "ConnectionRequest"
    /\ messageParser[1].payload.workerId = 3
    /\ messageParser[2].opcode = "ConnectionRequest"
    /\ messageParser[2].payload.workerId = 2
    /\ messageParser[3].opcode = "ConnectTo"
    /\ workerId # None
    /\ 2 \notin DOMAIN peers

(***************************************************************************)
(* C20: Bye                                                                *)
(***************************************************************************)
\* the step is a pass of handleMessages over the whole queue
MessagesPass == messageParser # <<>> /\ messageParser' = <<>>

\* C20: a pass of handleMessages sets terminated exactly when a Bye is among
\* the messages it processes, whatever is queued before or behind the Bye;
\* no step is taken once terminated is set, so the flag stays set and the
\* queues stay as they are; and a queued Bye is processed eventually.
C20_ByeTerminates ==
    /\ [][/\ ~terminated
          /\ MessagesPass => (terminated' <=> Queued("Bye"))
          /\ terminated' => MessagesPass]_vars
    /\ [](terminated => []terminated)
    /\ (Queued("Bye") ~> terminated)

\* the worker has stopped with rays to trace and handshake packets to send
C20_Witness ==
    /\ terminated
    /\ rayQueue # <<>>
    /\ servicePackets # <<>>
    /\ pendingQueueSize > 0

(***************************************************************************)
(* C21: a ray that can be neither traced nor shaded                        *)
(***************************************************************************)
\* the rays one activation of handleRayQueue may pop
Pulled ==
    SubSeq(rayQueue, 1,
           IF Len(rayQueue) < MAX_RAYS THEN Len(rayQueue) ELSE MAX_RAYS)

\* neither branch of the loop takes the ray
Invalid(ray) == ray.toVisitEmpty /\ ~ray.hit

\* the position in rayQueue of the first ray the activation cannot take, or 0
FirstInvalid ==
    IF \E k \in DOMAIN Pulled : Invalid(Pulled[k])
    THEN CHOOSE k \in DOMAIN Pulled :
            /\ Invalid(Pulled[k])
            /\ \A j \in 1..(k - 1) : ~Invalid(Pulled[j])
    ELSE 0

\* the step is an activation of handleRayQueue: rays have left the front of
\* rayQueue
RayQueueStep ==
    /\ rayQueue # <<>>
    /\ ~(/\ Len(rayQueue') >= Len(rayQueue)
         /\ SubSeq(rayQueue', 1, Len(rayQueue)) = rayQueue)

\* C21: an activation of handleRayQueue that pops a ray with an empty toVisit
\* and no hit fails: the rays up to that one have left rayQueue, the ray is
\* in no queue, no ray object was created for it, and the worker takes no
\* further step.  An activation that pops no such ray does not fail.
C21_InvalidRayIsFatal ==
    [][/\ ~failed
       /\ RayQueueStep =>
            IF FirstInvalid # 0
            THEN /\ failed'
                 /\ rayQueue' = SubSeq(rayQueue, FirstInvalid + 1, Len(rayQueue))
                 /\ \A i \in DOMAIN HeldIds' :
                        HeldIds'[i] # rayQueue[FirstInvalid].id
                 /\ finishedPathIds' = finishedPathIds
                        \/ FirstInvalid > 1
            ELSE ~failed']_vars

\* the worker has failed on the second ray of an activation, after the first
\* was finished; a third ray is still queued
C21_Witness ==
    /\ failed
    /\ rayQueue # <<>>
    /\ finishedQueue # <<>>
    /\ nextRayId = MaxOut + 1

(***************************************************************************)
(* C22: how many rays one activation takes                                 *)
(***************************************************************************)
\* the position in Pulled of the ray with this id, or 0
PulledAt(id) ==
    IF \E p \in DOMAIN Pulled : Pulled[p].id = id
    THEN CHOOSE p \in DOMAIN Pulled : Pulled[p].id = id
    ELSE 0

\* C22: an activation of handleRayQueue that does not fail takes the first
\* min(|rayQueue|, MAX_RAYS) rays.  The rays beyond them are at the front of
\* rayQueue afterwards, in order.  Behind them come the rays the activation
\* has classified back into rayQueue: rays it popped and traced, in the order
\* they were popped, and ray objects Shade created, which are as Shade made
\* them.  None of the popped rays is left where it was.
C22_ActivationTakesAtMostMaxRays ==
    [][(RayQueueStep /\ ~failed') =>
        LET rest == SubSeq(rayQueue, Len(Pulled) + 1, Len(rayQueue))
            back == SubSeq(rayQueue', Len(rest) + 1, Len(rayQueue'))
        IN /\ Len(rayQueue') >= Len(rest)
           /\ SubSeq(rayQueue', 1, Len(rest)) = rest
           /\ \A k \in DOMAIN back :
                \/ /\ PulledAt(back[k].id) # 0
                   /\ ~Pulled[PulledAt(back[k].id)].toVisitEmpty
                \/ /\ back[k].id >= nextRayId
                   /\ ~back[k].hit
                   /\ ~back[k].toVisitEmpty
           /\ \A k, l \in DOMAIN back :
                (k < l /\ PulledAt(back[k].id) # 0 /\ PulledAt(back[l].id) # 0)
                    => PulledAt(back[k].id) < PulledAt(back[l].id)]_vars

\* three rays are queued, one more than an activation takes: a ray of peer 2
\* that has waited, and behind it a camera ray that was traced, hit and was
\* queued again
C22_Witness ==
    /\ Len(rayQueue) = MAX_RAYS + 1
    /\ rayQueue[1].pathId = PeerPath
    /\ rayQueue[2].pathId # PeerPath
    /\ rayQueue[2].hit
    /\ rayQueue[2].id < rayQueue[1].id
    /\ ~failed


(***************************************************************************)
(* C23: where a classified ray goes                                        *)
(***************************************************************************)
\* the step is a pass of handleMessages over GenerateRays messages only
GenerateStep ==
    /\ MessagesPass
    /\ \A i \in DOMAIN messageParser : messageParser[i].opcode = "GenerateRays"

\* the rays the step has put behind those rayQueue kept
AddedToRayQueue ==
    LET kept == IF RayQueueStep THEN Len(rayQueue) - Len(Pulled)
                ELSE Len(rayQueue)
    IN SubSeq(rayQueue', kept + 1, Len(rayQueue'))

\* the rays the step has appended to the queue of treelet t in a map of queues
AddedTo(q, t) ==
    SubSeq(q'[t], Len(q[t]) + 1, Len(q'[t]))

\* C23: a step that classifies rays, an activation of handleRayQueue that
\* does not fail or a pass over GenerateRays messages, puts every ray it
\* classifies into one queue and no other: rayQueue when the worker owns the
\* ray's treelet, else outQueue of that treelet when treeletToWorker has an
\* entry for it, else pendingQueue of that treelet.  neededTreelets grows by
\* exactly the treelets of the rays that went to pendingQueue.  Every queue
\* keeps what it held; a popped ray with a non-empty toVisit is classified
\* or finished, and one ray is classified per generated sample.
C23_ClassifiedIntoOneQueue ==
    [][((RayQueueStep /\ ~failed') \/ GenerateStep) =>
        LET toOut == Flatten([t \in Treelets |-> AddedTo(outQueue, t)], Treelets)
            toPending == Flatten([t \in Treelets |-> AddedTo(pendingQueue, t)],
                                 Treelets)
            classified == Ids(AddedToRayQueue) \o Ids(toOut) \o Ids(toPending)
        IN /\ treeletIds' = treeletIds /\ treeletToWorker' = treeletToWorker
           /\ \A t \in Treelets :
                /\ Len(outQueue'[t]) >= Len(outQueue[t])
                /\ SubSeq(outQueue'[t], 1, Len(outQueue[t])) = outQueue[t]
                /\ Len(pendingQueue'[t]) >= Len(pendingQueue[t])
                /\ SubSeq(pendingQueue'[t], 1, Len(pendingQueue[t]))
                        = pendingQueue[t]
           /\ NoDuplicates(classified)
           /\ \A k \in DOMAIN AddedToRayQueue :
                AddedToRayQueue[k].treelet \in treeletIds
           /\ \A t \in Treelets :
                /\ \A k \in DOMAIN AddedTo(outQueue, t) :
                     /\ AddedTo(outQueue, t)[k].treelet = t
                     /\ t \notin treeletIds
                     /\ t \in DOMAIN treeletToWorker
                /\ \A k \in DOMAIN AddedTo(pendingQueue, t) :
                     /\ AddedTo(pendingQueue, t)[k].treelet = t
                     /\ t \notin treeletIds
                     /\ t \notin DOMAIN treeletToWorker
           /\ neededTreelets' =
                neededTreelets \cup {t \in Treelets : AddedTo(pendingQueue, t) # <<>>}
           /\ outQueueSize' = outQueueSize + Len(toOut)
           /\ pendingQueueSize' = pendingQueueSize + Len(toPending)
           /\ RayQueueStep =>
                \A p \in DOMAIN Pulled :
                    ~Pulled[p].toVisitEmpty =>
                        \/ \E k \in DOMAIN classified : classified[k] = Pulled[p].id
                        \/ \E k \in DOMAIN finishedQueue' :
                                finishedQueue'[k].id = Pulled[p].id
           /\ GenerateStep =>
                Len(classified) = QueuedRays(messageParser)]_vars

\* a worker is known for treelet 1: a ray of peer 2 was traced into treelet 1
\* and waits in outQueue behind or before a camera ray, while a ray that was
\* traced and hit is back in rayQueue, and no treelet is needed
C23_Witness ==
    /\ 1 \in DOMAIN treeletToWorker
    /\ neededTreelets = {}
    /\ \E k \in DOMAIN outQueue[1] : outQueue[1][k].pathId = PeerPath
    /\ \E k \in DOMAIN outQueue[1] : outQueue[1][k].pathId # PeerPath
    /\ \E k \in DOMAIN rayQueue : rayQueue[k].hit /\ rayQueue[k].treelet \in treeletIds
    /\ ~failed


(***************************************************************************)
(* C24: keep-alive pings                                                   *)
(***************************************************************************)
\* the Ping packets for peer p in a queue of service packets
PingsTo(packets, p) ==
    {k \in DOMAIN packets :
        /\ packets[k].data.opcode = "Ping"
        /\ packets[k].destinationId = p}

\* handlePeers has sent peer p one more Ping, to its first address and at the
\* back of the queue, and has moved its deadline by one interval
PingedOnce(w, after, p) ==
    /\ Cardinality(PingsTo(after.servicePackets, p))
            = Cardinality(PingsTo(w.servicePackets, p)) + 1
    /\ \E k \in PingsTo(after.servicePackets, p) :
            /\ after.servicePackets[k].destination = w.peers[p].address[1]
            /\ \A j \in DOMAIN after.servicePackets :
                 j > k => after.servicePackets[j].data.opcode = "Ping"
    /\ after.peers[p].nextKeepAlive
            = w.peers[p].nextKeepAlive + KEEP_ALIVE_INTERVAL

\* handlePeers has left peer p alone
NotPinged(w, after, p) ==
    /\ Cardinality(PingsTo(after.servicePackets, p))
            = Cardinality(PingsTo(w.servicePackets, p))
    /\ after.peers[p] = w.peers[p]

\* C24: whenever the peer timer may fire, handlePeers enqueues exactly one
\* Ping for each Connected peer other than the coordinator whose
\* nextKeepAlive is before now, and advances that peer's nextKeepAlive by
\* KEEP_ALIVE_INTERVAL; a Connected peer whose deadline is now or later, and
\* the coordinator whatever its deadline, gets no Ping and keeps its deadline.
C24_KeepAliveForDuePeers ==
    (Running /\ DOMAIN peers # {}) =>
        LET after == handlePeers(W)
        IN \A p \in DOMAIN peers :
            peers[p].state = "Connected" =>
                IF p > 0 /\ peers[p].nextKeepAlive < now
                THEN PingedOnce(W, after, p)
                ELSE NotPinged(W, after, p)

\* the statement as claimed: every Connected peer, the coordinator included,
\* whose nextKeepAlive is at or before now gets one Ping and a new deadline
C24_KeepAliveForEveryPeer ==
    (Running /\ DOMAIN peers # {}) =>
        LET after == handlePeers(W)
        IN \A p \in DOMAIN peers :
            (peers[p].state = "Connected" /\ peers[p].nextKeepAlive <= now)
                => PingedOnce(W, after, p)

\* the peer timer has fired and pinged peer 2, whose deadline had passed; the
\* coordinator was Connected by then with an earlier deadline, and has got
\* no Ping and kept that deadline
C24_Witness ==
    /\ 0 \in DOMAIN peers /\ 2 \in DOMAIN peers
    /\ peers[0].state = "Connected" /\ peers[2].state = "Connected"
    /\ PingsTo(servicePackets, 2) # {}
    /\ PingsTo(servicePackets, 0) = {}
    /\ peers[0].nextKeepAlive < peers[2].nextKeepAlive - KEEP_ALIVE_INTERVAL
    /\ peers[0].nextKeepAlive < now


(***************************************************************************)
(* C25: the size of an Ack payload                                         *)
(***************************************************************************)
\* the bytes of the payload of an Ack message: one triple after the other
AckPayloadLen(message) == Len(message.payload.acks) * ACK_TRIPLE_LEN

\* C25: every Ack service packet handleRayAcknowledgements has queued
\* carries at least one triple and at most UDP_MTU_BYTES bytes of triples,
\* however many acknowledgements were pending for its source.
C25_AckPayloadWithinMtu ==
    \A k \in DOMAIN servicePackets :
        servicePackets[k].ackPacket =>
            /\ servicePackets[k].data.payload.acks # <<>>
            /\ AckPayloadLen(servicePackets[k].data) <= UDP_MTU_BYTES


(***************************************************************************)
(* C26: finished rays are sent back                                        *)
(***************************************************************************)
\* the step is an activation of handleFinishedQueue
FinishedQueueStep == finishedQueue # <<>> /\ finishedQueue' = <<>>

\* the ray objects reported in the FinishedRays messages written so far
Reported ==
    LET finished == SelectSeq(coordinatorWrites,
                              LAMBDA m : m.opcode = "FinishedRays")
    IN Flatten([i \in 1..Len(finished) |->
                    [k \in 1..Len(finished[i].payload.rays) |->
                        finished[i].payload.rays[k].ray]],
               1..Len(finished))

\* C26: under SendBack an activation of handleFinishedQueue empties
\* finishedQueue and writes one FinishedRays message to the coordinator,
\* whose entries are the rays that were queued, front first, each with its
\* sample id and radiance; nothing else is written and no other step writes
\* to the coordinator or takes a ray from finishedQueue.  No ray object is
\* reported twice, and a reported ray is in no queue.
C26_FinishedRaysSentBackOnce ==
    [][/\ FinishedQueueStep =>
            /\ config.finishedRayAction = "SendBack"
            /\ Len(coordinatorWrites') = Len(coordinatorWrites) + 1
            /\ SubSeq(coordinatorWrites', 1, Len(coordinatorWrites))
                    = coordinatorWrites
            /\ LET message == coordinatorWrites'[Len(coordinatorWrites')]
               IN /\ message.opcode = "FinishedRays"
                  /\ message.senderId = workerId[1]
                  /\ Len(message.payload.rays) = Len(finishedQueue)
                  /\ \A k \in DOMAIN finishedQueue :
                        /\ message.payload.rays[k].ray = finishedQueue[k].id
                        /\ message.payload.rays[k].sampleId
                                = finishedQueue[k].pathId
                        /\ message.payload.rays[k].L = finishedQueue[k].Ld
       /\ ~FinishedQueueStep =>
            /\ coordinatorWrites' = coordinatorWrites
            /\ Len(finishedQueue') >= Len(finishedQueue)
            /\ SubSeq(finishedQueue', 1, Len(finishedQueue)) = finishedQueue
       /\ NoDuplicates(Reported')
       /\ \A k \in DOMAIN Reported' :
            \A i \in DOMAIN HeldIds' : HeldIds'[i] # Reported'[k]]_vars

\* a FinishedRays message with two rays has been written: a shadow ray that
\* kept its radiance and a ray that has none; finishedQueue is empty again
C26_Witness ==
    /\ \E i \in DOMAIN coordinatorWrites :
        /\ coordinatorWrites[i].opcode = "FinishedRays"
        /\ Len(coordinatorWrites[i].payload.rays) = 2
        /\ \E k, l \in DOMAIN coordinatorWrites[i].payload.rays :
                /\ coordinatorWrites[i].payload.rays[k].L = 1
                /\ coordinatorWrites[i].payload.rays[l].L = 0
    /\ finishedQueue = <<>>
    /\ ~failed


(***************************************************************************)
(* C27: benchmark mode                                                     *)
(***************************************************************************)
\* C27: once a benchmark has started, Pings leave on interface addressNo
\* only, so none has been sent on the other interface; every Ping sent and
\* every datagram received on interface 1 - addressNo is in the tallies and
\* nothing else is; and after the duration timer has fired no action runs.
C27_BenchmarkUsesOneInterfaceEachWay ==
    [][/\ benchmark.state # "Ended"
       /\ benchmark'.state # "Off" =>
            LET total == merge(benchmark'.stats, benchmark'.checkpoint)
            IN /\ benchmark'.sent[(1 - benchmark'.sendIface) + 1] = 0
               /\ total.packetsSent = benchmark'.sent[benchmark'.sendIface + 1]
               /\ total.packetsReceived
                    = benchmark'.received[benchmark'.recvIface + 1]
               /\ benchmark'.recvIface = 1 - benchmark'.sendIface]_vars


(***************************************************************************)
(* C28: treeletToWorker and the peers' treelets                            *)
(***************************************************************************)
\* the positions of worker id p in the list treeletToWorker keeps for t
ListedAt(t, p) ==
    {k \in DOMAIN MapGet(treeletToWorker, t, <<>>) : treeletToWorker[t][k] = p}

\* C28: in every state, worker id p is in the list of treeletToWorker for
\* treelet t exactly when t is among the treelets recorded for peer p, and
\* it is there once; a worker id that is no peer is in no list.
C28_TreeletToWorkerMatchesPeers ==
    \A t \in Treelets, p \in {0} \cup PeerIds :
        /\ ListedAt(t, p) # {} <=> (p \in DOMAIN peers /\ t \in peers[p].treelets)
        /\ Cardinality(ListedAt(t, p)) <= 1

\* the coordinator and peer 2 are both Connected and listed for treelet 0,
\* and a further response of peer 2 that names the worker's seed is queued
C28_Witness ==
    /\ 0 \in DOMAIN peers /\ 2 \in DOMAIN peers
    /\ peers[0].state = "Connected" /\ peers[2].state = "Connected"
    /\ Cardinality(ListedAt(0, 0)) = 1
    /\ Cardinality(ListedAt(0, 2)) = 1
    /\ \E k \in DOMAIN messageParser :
        /\ messageParser[k].opcode = "ConnectionResponse"
        /\ messageParser[k].senderId = 2
        /\ messageParser[k].payload.yourSeed = mySeed


(***************************************************************************)
(* C29: the worker id                                                      *)
(***************************************************************************)
\* C29: once the worker has an id, no step changes it: not a later Hey,
\* whichever id it carries, nor any other message.
C29_WorkerIdAssignedOnce ==
    [][workerId # None => workerId' = workerId]_vars


(***************************************************************************)
(* C30: where a traced ray goes                                            *)
(***************************************************************************)
\* the step is an activation of handleRayQueue that only traces: every ray
\* it pops has a non-empty toVisit
TraceStep ==
    /\ RayQueueStep
    /\ \A p \in DOMAIN Pulled : ~Pulled[p].toVisitEmpty

\* the rays the step has appended to finishedQueue
NewlyFinished ==
    SubSeq(finishedQueue', Len(finishedQueue) + 1, Len(finishedQueue'))

\* the rays the step has classified into rayQueue, outQueue or pendingQueue
NewlyClassified ==
    AddedToRayQueue
        \o Flatten([t \in Treelets |-> AddedTo(outQueue, t)], Treelets)
        \o Flatten([t \in Treelets |-> AddedTo(pendingQueue, t)], Treelets)

AckStep == DOMAIN toBeAcked # {} /\ DOMAIN toBeAcked' = {}

\* the service packets the step has appended
NewServicePackets ==
    SubSeq(servicePackets', Len(servicePackets) + 1, Len(servicePackets'))

RECURSIVE AcksTo(_, _)
\* the triples of the Ack packets for an address, in queue order
AcksTo(packets, address) ==
    IF packets = <<>> THEN <<>>
    ELSE (IF Head(packets).ackPacket /\ Head(packets).destination = address
          THEN Head(packets).data.payload.acks ELSE <<>>)
         \o AcksTo(Tail(packets), address)

\* C31: an activation of handleRayAcknowledgements with acknowledgements
\* pending leaves toBeAcked empty and appends only Ack packets to
\* servicePackets, each for an address that had entries and none empty; the
\* triples of the packets for an address, read in queue order, are the
\* entries toBeAcked held for it, in their order, so each entry is in one
\* packet and none is left out or repeated.  The packets carry the ack ids
\* from ackId on, one each, and ackId has moved past them.  No other step
\* takes an entry from toBeAcked.
C31_PendingAcksSentOnce ==
    [][/\ AckStep =>
            /\ Len(servicePackets') >= Len(servicePackets)
            /\ SubSeq(servicePackets', 1, Len(servicePackets)) = servicePackets
            /\ \A k \in DOMAIN NewServicePackets :
                LET packet == NewServicePackets[k]
                IN /\ packet.ackPacket
                   /\ packet.data.opcode = "Ack"
                   /\ packet.data.payload.acks # <<>>
                   /\ packet.destination \in DOMAIN toBeAcked
                   /\ packet.ackId = ackId + k - 1
                   /\ packet.data.sequenceNumber = packet.ackId
            /\ ackId' = ackId + Len(NewServicePackets)
            /\ \A address \in DOMAIN toBeAcked :
                AcksTo(NewServicePackets, address) = toBeAcked[address]
       /\ ~AckStep =>
            \A address \in DOMAIN toBeAcked :
                /\ address \in DOMAIN toBeAcked'
                /\ Len(toBeAcked'[address]) >= Len(toBeAcked[address])
                /\ SubSeq(toBeAcked'[address], 1, Len(toBeAcked[address]))
                        = toBeAcked[address]]_vars

\* three Ack packets wait to be sent: two for peer 2, whose entries did not
\* fit one packet, the second with the entries left over, and one for peer 3
C31_Witness ==
    /\ Len(servicePackets) = 3
    /\ \A k \in DOMAIN servicePackets : servicePackets[k].ackPacket
    /\ servicePackets[1].destination = Addr(2, 0)
    /\ servicePackets[2].destination = Addr(2, 0)
    /\ servicePackets[3].destination = Addr(3, 0)
    /\ Len(servicePackets[1].data.payload.acks) > Len(servicePackets[2].data.payload.acks)
    /\ servicePackets[1].data.payload.acks[1] # servicePackets[1].data.payload.acks[2]
    /\ DOMAIN toBeAcked = {}


\* C32: the outstanding ray packets are in the order of their deadlines, the
\* earliest at the front, whatever first sends, retransmissions and scans
\* have happened; so when the deadline of the front packet is still ahead,
\* no packet behind it has expired.
C32_OutstandingOrderedByDeadline ==
    /\ \A i, j \in DOMAIN outstandingRayPackets :
          i < j => outstandingRayPackets[i][1] <= outstandingRayPackets[j][1]
    /\ (outstandingRayPackets # <<>> /\ Head(outstandingRayPackets)[1] > now)
          => \A i \in DOMAIN outstandingRayPackets :
                outstandingRayPackets[i][1] > now

\* a packet sent first and a packet sent again at a later time are both
\* outstanding, the front one already expired
C32_Witness ==
    /\ Len(outstandingRayPackets) = 2
    /\ outstandingRayPackets[1][1] < outstandingRayPackets[2][1]
    /\ outstandingRayPackets[1][2].attempt = 0
    /\ outstandingRayPackets[2][2].retransmission
    /\ outstandingRayPackets[1][1] <= now


\* C33: every ray packet handleOutQueue pushes onto rayPackets carries at
\* least one ray, so no sequence number goes to an empty packet, whatever the
\* serialized sizes of the rays.
C33_NoEmptyRayPacket ==
    \A i \in DOMAIN constructed :
        constructed[i].rayCount >= 1 /\ constructed[i].payload # <<>>


\* the ray packet with sequence number s for address d is outstanding, its
\* deadline has passed and s is not acknowledged
ExpiredUnacked(d, s) ==
    /\ s \notin MapGet(receivedAcks, d, {})
    /\ \E i \in DOMAIN outstandingRayPackets :
          /\ outstandingRayPackets[i][1] < now
          /\ outstandingRayPackets[i][2].destination = d
          /\ outstandingRayPackets[i][2].sequenceNumber = s

\* the packet is on rayPackets as a retransmission
QueuedAgain(d, s) ==
    \E i \in DOMAIN rayPackets :
        /\ rayPackets[i].destination = d
        /\ rayPackets[i].sequenceNumber = s
        /\ rayPackets[i].retransmission

\* C34: in reliable mode, while the RayAcks action is run fairly, a sent ray
\* packet whose deadline has passed with its sequence number unacknowledged
\* is eventually pushed back onto rayPackets (or acknowledged after all),
\* also when no acknowledgement from anyone has arrived yet.
C34_ExpiredPacketRequeued ==
    \A p \in {2, 3}, s \in 0..MaxSeqNo :
        ExpiredUnacked(Addr(p, 0), s)
            ~> (QueuedAgain(Addr(p, 0), s)
                    \/ s \in MapGet(receivedAcks, Addr(p, 0), {}))


\* handleUdpSend transmits the front ray packet
RayPacketSent ==
    /\ rayPackets # <<>>
    /\ rayPackets' = Tail(rayPackets)
    /\ servicePackets' = servicePackets

\* C35: once sequence number s is in receivedAcks[d], no ray packet with
\* destination d and sequence number s is transmitted again, also when the
\* acknowledgement arrives while the packet waits on rayPackets.
C35_AckedPacketNotSentAgain ==
    [][RayPacketSent =>
          Head(rayPackets).sequenceNumber
              \notin MapGet(receivedAcks, Head(rayPackets).destination, {})]_vars


\* C36: every ray in rayQueue is in a treelet the worker holds, after any
\* sequence of GenerateRays, handleRayQueue and received SendRays; a ray a
\* peer sends for a treelet the worker does not hold is not queued for
\* tracing here.
C36_RayQueueHoldsOwnedTreelets ==
    \A i \in DOMAIN rayQueue : rayQueue[i].treelet \in treeletIds


\* C37: whenever outQueue[t] holds a ray, treeletToWorker[t] lists at least
\* one worker and every worker it lists is in the peer table and Connected;
\* so handleOutQueue has a peer to draw, and every packet it built went to
\* the first address of a Connected peer that holds the packet's treelet.
C37_OutboundTreeletHasConnectedPeer ==
    /\ \A t \in DOMAIN outQueue :
          outQueue[t] # <<>> =>
              /\ t \in DOMAIN treeletToWorker
              /\ treeletToWorker[t] # <<>>
              /\ \A k \in DOMAIN treeletToWorker[t] :
                    /\ treeletToWorker[t][k] \in DOMAIN peers
                    /\ peers[treeletToWorker[t][k]].state = "Connected"
    /\ outQueueSize > 0 => Picks(W) # {}
    /\ \A i \in DOMAIN constructed :
          /\ constructed[i].destinationId \in DOMAIN peers
          /\ LET peer == peers[constructed[i].destinationId]
             IN /\ peer.state = "Connected"
                /\ constructed[i].destination = peer.address[1]
                /\ constructed[i].targetTreelet \in peer.treelets

\* a packet has been built for peer 2 and a further ray waits for it
C37_Witness ==
    /\ \E t \in DOMAIN outQueue :
          outQueue[t] # <<>> /\ treeletToWorker[t] = <<2>>
    /\ \E i \in DOMAIN constructed : constructed[i].destinationId = 2


\* an acknowledgement is received: some address gains an acknowledged
\* sequence number
AckReceived ==
    \E a \in DOMAIN receivedAcks' :
        receivedAcks'[a] \ MapGet(receivedAcks, a, {}) # {}

\* handleUdpSend sends a service packet
ServicePacketSent == Len(servicePackets') < Len(servicePackets)

\* C38: acknowledgements are neither acknowledged nor retransmitted.  Every
\* Ack the worker queues is not reliable; receiving an Ack leaves toBeAcked
\* and receivedPacketSeqNos as they were and leaves no message for
\* handleMessages; a service packet that is sent leaves servicePackets and
\* goes neither to outstandingRayPackets nor to rayPackets, which hold ray
\* packets built by handleOutQueue only.
C38_AcksNotAcknowledged ==
    [][/\ \A i \in DOMAIN servicePackets' :
             (servicePackets'[i].ackPacket
                 \/ servicePackets'[i].data.opcode = "Ack")
                => /\ servicePackets'[i].ackPacket
                   /\ servicePackets'[i].data.opcode = "Ack"
                   /\ ~servicePackets'[i].data.reliable
       /\ \A i \in DOMAIN messageParser' : messageParser'[i].opcode # "Ack"
       /\ AckReceived =>
             /\ toBeAcked' = toBeAcked
             /\ receivedPacketSeqNos' = receivedPacketSeqNos
             /\ messageParser' = messageParser
       /\ ServicePacketSent =>
             /\ \E i \in DOMAIN servicePackets :
                   servicePackets' = RemoveAt(servicePackets, i)
             /\ outstandingRayPackets' = outstandingRayPackets
             /\ rayPackets' = rayPackets
       /\ \A i \in DOMAIN outstandingRayPackets' :
             \E j \in DOMAIN constructed' :
                /\ constructed'[j].destination
                      = outstandingRayPackets'[i][2].destination
                /\ constructed'[j].sequenceNumber
                      = outstandingRayPackets'[i][2].sequenceNumber
                /\ constructed'[j].payload
                      = outstandingRayPackets'[i][2].payload]_vars

\* the worker has sent an acknowledgement of peer 2's packet and has received
\* an acknowledgement for a packet of its own, which is still outstanding
C38_Witness ==
    /\ ackId > 0
    /\ servicePackets = <<>>
    /\ DOMAIN toBeAcked = {}
    /\ \E a \in DOMAIN receivedAcks : receivedAcks[a] # {}
    /\ Addr(2, 0) \in DOMAIN receivedPacketSeqNos
    /\ outstandingRayPackets # <<>>


\* each of the two workers holds the other as Connected
BothConnected ==
    /\ peers[2].state = "Connected"
    /\ peerWorker.peers[1].state = "Connected"

\* C39: two workers that the coordinator has announced to each other both
\* come to hold the other as Connected and stay so, while their peer timers
\* keep firing and the network keeps delivering some of the datagrams of
\* each kind on each interface in each direction.
C39_PairEventuallyConnected == <>[]BothConnected

\* both workers are Connected and the queues are empty
C39_Witness ==
    /\ BothConnected
    /\ peers[2].seed = mySeed /\ peerWorker.peers[1].seed = mySeed
    /\ servicePackets = <<>> /\ peerWorker.servicePackets = <<>>
    /\ messageParser = <<>> /\ peerWorker.messageParser = <<>>


\* C40: pluralize(word, count) returns the word unchanged when count is 1
\* and the word with "s" appended for every other count.
C40_PluralizeAddsSUnlessOne ==
    (pluralized # None /\ pluralized.returned) =>
        pluralized.result = IF pluralized.count = 1 THEN pluralized.word
                            ELSE pluralized.word \o <<"s">>

=============================================================================
